---- MODULE Spec2Model ----
(***************************************************************************)
(* A model of github_stats.py: the file-backed TTL cache (SimpleCache),    *)
(* the rate-limited query client (Queries) and the statistics aggregator   *)
(* (Stats).                                                                *)
(***************************************************************************)
EXTENDS Integers, Sequences, FiniteSets, TLC

(***************************************************************************)
(* Bounds of the model.                                                    *)
(***************************************************************************)
\* the ttl the cache under test is constructed with (seconds)
CacheTtl == 2
\* how many seconds the clock may advance
MaxTicks == 3
\* the largest max_connections a Queries instance is constructed with
MaxConn == 2
\* how many 202 answers the remote gives one REST call when several run
Max202 == 1
\* the most pages a collection of the remote has, where paging is examined
MaxPages == 4
\* the most pages a collection has, where the merge of the nodes is examined
MaxMergePages == 2
\* how many accessors one caller reads, one after another
MaxReads == 2

(***************************************************************************)
(* Program constants.                                                      *)
(***************************************************************************)
\* range(60) in Queries.query_rest
RestAttempts == 60
\* asyncio.sleep(2) in Queries.query_rest
BackoffSeconds == 2
\* max_connections: int = 50 in Queries.__init__
DefaultMaxConnections == 50

VARIABLES
    \* SimpleCache: the cache directory, the clock, the last call and its outcome
    files, now, cres,
    \* Queries: the semaphore, and the calls of query / query_rest made through
    \* it (by the coroutines of a fan-out, or by the test of the client)
    max_connections, permits, waiters,
    tkind, tpc, attempts, n202, slept, tresult, tpayload,
    \* the remote: how often it answers 202 to one call, the JSON bodies its
    \* REST endpoints give, the pages of the two collections, the nodes on
    \* them, the answers the GraphQL endpoint can give
    limit202, payloads, ownedPages, contribPages, catalog, answers,
    \* Stats.__init__: the configuration
    _exclude_repos, _exclude_langs, _ignore_forked_repos, cache_enabled,
    _include_views, _include_lines_changed,
    \* Stats: the memoized fields
    _name, _stargazers, _forks, _languages, _repos,
    _total_contributions, _lines_changed, _views,
    \* the coroutines reading Stats: the accessor each is in, where it stands,
    \* what it returned or raised, the cursors of its get_stats, its reads so far
    \* and whether its reads are those of to_str
    acc, cpc, ret, next_owned, next_contrib, reads, outer,
    \* what the remote saw: the session.post calls of Stats, and how often each
    \* repository was on a page that get_stats merged in its current run
    \* and the names on the last overview page pair: of the owned nodes, of the
    \* contributed-to nodes, and of the nodes the loop went over, in its order
    posts, served, last_page

cacheVars == <<files, now, cres>>
semVars == <<max_connections, permits, waiters>>
taskVars == <<tkind, tpc, attempts, n202, slept, tresult, tpayload>>
remoteVars == <<limit202, payloads, ownedPages, contribPages, catalog, answers>>
cfgVars == <<_exclude_repos, _exclude_langs, _ignore_forked_repos, cache_enabled,
             _include_views, _include_lines_changed>>
snapshotVars == <<_name, _stargazers, _forks, _languages, _repos>>
derivedVars == <<_total_contributions, _lines_changed, _views>>
callerVars == <<acc, cpc, ret, next_owned, next_contrib, reads, outer>>
seenVars == <<posts, served, last_page>>
statsVars == <<cfgVars, snapshotVars, derivedVars, callerVars, seenVars>>
vars == <<cacheVars, semVars, taskVars, remoteVars, statsVars>>

\* Optional[T]: None, or a value
None == <<>>
Some(v) == <<v>>
Val(o) == o[1]

(***************************************************************************)
(* Python values, as far as the cache sees them.  A value is a record      *)
(* [t, a, b]: t is the Python type, a and b the (at most two) integers in  *)
(* it.                                                                     *)
(***************************************************************************)
PyNone == [t |-> "NoneType", a |-> 0, b |-> 0]
PyInt(n) == [t |-> "int", a |-> n, b |-> 0]
PyList(x, y) == [t |-> "list", a |-> x, b |-> y]
PyTuple(x, y) == [t |-> "tuple", a |-> x, b |-> y]
\* {x: y}, a dict with an int key, and {"x": y}, a dict with a str key
PyDictIntKey(x, y) == [t |-> "dict_int_key", a |-> x, b |-> y]
PyDictStrKey(x, y) == [t |-> "dict_str_key", a |-> x, b |-> y]
\* {x, y}, a set: json.dump raises TypeError on it
PySet(x, y) == [t |-> "set", a |-> x, b |-> y]

\* json.dump accepts the value (no TypeError)
JsonSerializable(v) == v.t # "set"

\* json.dump: the JSON document written for a serializable value
JsonDump(v) ==
    CASE v.t = "NoneType" -> [j |-> "null", a |-> 0, b |-> 0]
      [] v.t = "int" -> [j |-> "number", a |-> v.a, b |-> 0]
      [] v.t \in {"list", "tuple"} -> [j |-> "array", a |-> v.a, b |-> v.b]
      [] v.t \in {"dict_int_key", "dict_str_key"} -> [j |-> "object", a |-> v.a, b |-> v.b]

\* json.load: the Python value a JSON document decodes to
JsonLoad(d) ==
    CASE d.j = "null" -> PyNone
      [] d.j = "number" -> PyInt(d.a)
      [] d.j = "array" -> PyList(d.a, d.b)
      [] d.j = "object" -> PyDictStrKey(d.a, d.b)

(***************************************************************************)
(* SimpleCache.  files maps a cache key to the content of its file:        *)
(*   NoFile                       os.path.exists is false                  *)
(*   [kind |-> "entry", ...]      {"timestamp": <number>, "value": <json>} *)
(*   [kind |-> "no_timestamp"]    a JSON object without "timestamp"        *)
(*   [kind |-> "bad_timestamp"]   a JSON object, "timestamp" not a number  *)
(*   [kind |-> "not_object"]      valid JSON that is not an object         *)
(*   [kind |-> "garbage"]         text json.load cannot parse              *)
(*   [kind |-> "bad_bytes"]       bytes that are not UTF-8                 *)
(*   [kind |-> "unreadable"]      a file open(path, 'r') fails on (IOError) *)
(*   [kind |-> "directory"]       a directory: open() and os.remove fail   *)
(***************************************************************************)
JsonNull == [j |-> "null", a |-> 0, b |-> 0]
NoFile == [kind |-> "none", timestamp |-> 0, value |-> JsonNull]
Entry(ts, doc) == [kind |-> "entry", timestamp |-> ts, value |-> doc]
Broken(k) == [kind |-> k, timestamp |-> 0, value |-> JsonNull]
BrokenKinds == {"no_timestamp", "bad_timestamp", "not_object", "garbage",
                "bad_bytes", "unreadable", "directory"}

\* f"total_contributions_{username}", f"lines_changed_{username}", f"views_{username}"
KeyTotalContributions == "total_contributions_user"
KeyLinesChanged == "lines_changed_user"
KeyViews == "views_user"
CacheKeys == {KeyTotalContributions, KeyLinesChanged, KeyViews}

\* _get_cache_path: one file per key (sha256 of the key names it)
_get_cache_path(key) == key

\* the comparison of SimpleCache.get: the entry is expired
ExpiredOff(t, ts, ttl) == t - ts >= ttl
Expired(t, ts, ttl) == t - ts > ttl

\* what the file system of the cache directory does during a call:
\*   "none"          nothing special
\*   "open"          open(path, 'w') raises an IOError
\*   "write"         a write to the opened file raises an IOError
\*   "readonly_dir"  the cache directory is read-only for the process:
\*                   os.remove raises PermissionError and no file can be
\*                   created, while an existing file can be rewritten
SetFaults == {"none", "open", "write"}
DirFaults == {"none", "readonly_dir"}
CacheFaults == SetFaults \cup DirFaults

\* os.remove(cache_path) of SimpleCache.get, in the try block or in the
\* handler: the file is removed, or os.remove raises and get raises with it
\* (inside the try block the PermissionError is caught as an IOError, and the
\* handler's own os.remove raises it again)
RemoveOutcome(f, p, fault) ==
    IF fault = "readonly_dir"
    THEN [ret |-> PyNone, raised |-> "PermissionError", files |-> f]
    ELSE [ret |-> PyNone, raised |-> "none", files |-> [f EXCEPT ![p] = NoFile]]

\* SimpleCache.get on directory f at time t: what it returns or raises, and
\* the directory afterwards
GetOutcome(f, key, t, ttl, fault) ==
    LET p == _get_cache_path(key)
        c == f[p]
    IN  CASE c.kind = "none" ->
               [ret |-> PyNone, raised |-> "none", files |-> f]
          [] c.kind \in {"unreadable", "garbage"} ->
               \* IOError, json.JSONDecodeError: caught, the handler removes
               \* the file
               RemoveOutcome(f, p, fault)
          [] c.kind = "directory" ->
               \* IsADirectoryError is caught, and os.remove in the handler
               \* raises: PermissionError in a read-only directory,
               \* IsADirectoryError otherwise
               [ret |-> PyNone,
                raised |-> IF fault = "readonly_dir" THEN "PermissionError"
                           ELSE "IsADirectoryError",
                files |-> f]
          [] c.kind = "bad_bytes" ->
               [ret |-> PyNone, raised |-> "UnicodeDecodeError", files |-> f]
          [] c.kind = "not_object" ->
               [ret |-> PyNone, raised |-> "AttributeError", files |-> f]
          [] c.kind = "bad_timestamp" ->
               [ret |-> PyNone, raised |-> "TypeError", files |-> f]
          [] c.kind \in {"no_timestamp", "entry"} ->
               \* data.get('timestamp', 0): the record of a file without
               \* timestamp holds 0
               IF Expired(t, c.timestamp, ttl)
               THEN RemoveOutcome(f, p, fault)
               ELSE [ret |-> JsonLoad(c.value), raised |-> "none", files |-> f]

\* SimpleCache.set on directory f at time t, fault being what the file
\* system does
SetFilesKeep(f, key, v, t, fault) ==
    LET p == _get_cache_path(key)
    IN  IF fault = "none" /\ JsonSerializable(v) /\ f[p].kind \notin {"directory", "unreadable"}
        THEN [f EXCEPT ![p] = Entry(t, JsonDump(v))]
        ELSE f
SetFiles(f, key, v, t, fault) ==
    LET p == _get_cache_path(key)
    IN  CASE fault = "open" -> f
          \* open(path, 'w') cannot create the file: PermissionError
          [] fault = "readonly_dir" /\ f[p].kind = "none" -> f
          \* open(path, 'w') raises IsADirectoryError, an IOError
          [] f[p].kind = "directory" -> f
          \* a file the process cannot read: open(path, 'w') fails on it, or
          \* writes into it and the file stays one that open(path, 'r') fails on
          [] f[p].kind = "unreadable" -> f
          \* open(path, 'w') has truncated the file; what json.dump wrote before
          \* the error is all it holds
          [] fault = "write" -> [f EXCEPT ![p] = Broken("garbage")]
          [] ~JsonSerializable(v) -> [f EXCEPT ![p] = Broken("garbage")]
          [] OTHER -> [f EXCEPT ![p] = Entry(t, JsonDump(v))]

\* the values handed to SimpleCache.set in the cache's own specification
CacheValues == {PyNone, PyInt(0), PyInt(7), PyList(1, 2), PyTuple(1, 2),
                PyDictIntKey(1, 2), PyDictStrKey(1, 2), PySet(1, 2)}
\* the keys used in the cache's own specification
TestKeys == {KeyViews, KeyLinesChanged}
\* time.time() when the model starts: far past any ttl
StartTime == CacheTtl + MaxTicks + 1

NoCall == [op |-> "none", key |-> "", arg |-> PyNone, fault |-> "none",
           ret |-> PyNone, raised |-> "none"]

SimpleCache_get(key, fault) ==
    LET o == GetOutcome(files, key, now, CacheTtl, fault)
    IN  /\ files' = o.files
        /\ cres' = [op |-> "get", key |-> key, arg |-> PyNone, fault |-> fault,
                    ret |-> o.ret, raised |-> o.raised]
        /\ UNCHANGED now

SimpleCache_set(key, v, fault) ==
    /\ files' = SetFiles(files, key, v, now, fault)
    /\ cres' = [op |-> "set", key |-> key, arg |-> v, fault |-> fault,
                ret |-> PyNone, raised |-> "none"]
    /\ UNCHANGED now

\* time passes
Tick ==
    /\ now < StartTime + MaxTicks
    /\ now' = now + 1
    /\ UNCHANGED <<files, cres>>

\* another process, or a crash, leaves a file the cache did not write
Damage(key, kind) ==
    /\ files[_get_cache_path(key)].kind # kind
    /\ files' = [files EXCEPT ![_get_cache_path(key)] = Broken(kind)]
    /\ cres' = [NoCall EXCEPT !.op = "damage", !.key = key]
    /\ UNCHANGED now

InitCache ==
    /\ files = [k \in CacheKeys |-> NoFile]
    /\ now = StartTime
    /\ cres = NoCall

(***************************************************************************)
(* Queries.  A task is one call of Queries.query ("graphql") or of         *)
(* Queries.query_rest ("rest").  tpc is where the call stands:             *)
(*   idle      not called                                                  *)
(*   created   a coroutine handed to asyncio.gather that has not run yet   *)
(*   waiting   suspended in semaphore.acquire, its future pending          *)
(*   granted   its future is set (it holds a permit), not yet resumed      *)
(*   inflight  inside session.post / session.get, holding a permit         *)
(*   reading   suspended in r_async.json(), the permit released            *)
(*   sleeping  suspended in asyncio.sleep(2), the permit released          *)
(*   done      returned: tresult is "data" (the body, in tpayload) or      *)
(*             "empty" (dict())                                            *)
(* permits is Semaphore._value and waiters is Semaphore._waiters.          *)
(***************************************************************************)
Tasks == DOMAIN tpc

InFlight == {t \in Tasks : tpc[t] = "inflight"}

\* a JSON body of a REST answer: a dict or a list, and the items in it
Json(shape, items) == [shape |-> shape, items |-> items]
\* dict()
EmptyDict == Json("dict", <<>>)

\* Semaphore.locked
lockedOff(p, w) == FALSE
locked(p, w) == p = 0 \/ w # <<>>

\* the first waiter whose future is not done (0: there is none)
FirstPending(w, pc) ==
    LET idx == {i \in 1..Len(w) : pc[w[i]] = "waiting"}
    IN  IF idx = {} THEN 0 ELSE CHOOSE i \in idx : \A j \in idx : i <= j

\* Semaphore._wake_up_next: the permit goes to the first pending waiter
_wake_up_next(p, w, pc) ==
    LET i == FirstPending(w, pc)
    IN  IF i = 0 THEN [permits |-> p, tpc |-> pc]
        ELSE [permits |-> p - 1, tpc |-> [pc EXCEPT ![w[i]] = "granted"]]

\* Semaphore.release
releaseOff(p, w, pc) == [permits |-> p, tpc |-> pc]
release(p, w, pc) == _wake_up_next(p + 1, w, pc)

Without(w, t) == SelectSeq(w, LAMBDA x : x # t)

\* semaphore.acquire by task t, then the request if the permit is free:
\* the semaphore and the pcs afterwards
acquire(p, w, pc, t) ==
    IF ~locked(p, w)
    THEN [permits |-> p - 1, waiters |-> w, tpc |-> [pc EXCEPT ![t] = "inflight"],
          sent |-> TRUE]
    ELSE [permits |-> p, waiters |-> Append(w, t), tpc |-> [pc EXCEPT ![t] = "waiting"],
          sent |-> FALSE]

\* the for loop of query_rest has another iteration after n attempts
MoreAttemptsOff(n) == n <= RestAttempts
MoreAttempts(n) == n < RestAttempts

\* Queries.query is called: headers, then async with self.semaphore
query(t) ==
    /\ tpc[t] = "idle"
    /\ LET s == acquire(permits, waiters, tpc, t)
       IN  /\ permits' = s.permits
           /\ waiters' = s.waiters
           /\ tpc' = s.tpc
    /\ tkind' = [tkind EXCEPT ![t] = "graphql"]
    /\ UNCHANGED <<attempts, n202, slept, tresult, tpayload, max_connections>>
    /\ UNCHANGED <<cacheVars, remoteVars, statsVars>>

\* Queries.query_rest is called: the first iteration of the loop
CallQueryRest(t) ==
    /\ LET s == acquire(permits, waiters, tpc, t)
       IN  /\ permits' = s.permits
           /\ waiters' = s.waiters
           /\ tpc' = s.tpc
           /\ attempts' = [attempts EXCEPT ![t] = IF s.sent THEN 1 ELSE 0]
    /\ tkind' = [tkind EXCEPT ![t] = "rest"]
    /\ UNCHANGED <<n202, slept, tresult, tpayload, max_connections>>
    /\ UNCHANGED <<cacheVars, remoteVars, statsVars>>
query_rest(t) ==
    /\ tpc[t] = "idle"
    /\ CallQueryRest(t)

\* a waiter whose future was set resumes in acquire: it leaves _waiters, wakes
\* the next waiter if a permit is free, and sends its request
AcquireResume(t) ==
    /\ tpc[t] = "granted"
    /\ LET w == Without(waiters, t)
           s == IF permits > 0 THEN _wake_up_next(permits, w, tpc)
                ELSE [permits |-> permits, tpc |-> tpc]
       IN  /\ waiters' = w
           /\ permits' = s.permits
           /\ tpc' = [s.tpc EXCEPT ![t] = "inflight"]
    /\ attempts' = [attempts EXCEPT ![t] = IF tkind[t] = "rest" THEN @ + 1 ELSE @]
    /\ UNCHANGED <<tkind, n202, slept, tresult, tpayload, max_connections>>
    /\ UNCHANGED <<cacheVars, remoteVars, statsVars>>

\* the next iteration of query_rest's loop, or its end ("too many 202s")
RestNextIteration(p, w, pc, t) ==
    IF MoreAttempts(attempts[t])
    THEN LET s == acquire(p, w, pc, t)
         IN  [permits |-> s.permits, waiters |-> s.waiters, tpc |-> s.tpc,
              attempts |-> [attempts EXCEPT ![t] = IF s.sent THEN @ + 1 ELSE @],
              tresult |-> tresult]
    ELSE [permits |-> p, waiters |-> w, tpc |-> [pc EXCEPT ![t] = "done"],
          attempts |-> attempts, tresult |-> [tresult EXCEPT ![t] = "empty"]]

\* session.post of query ends: with a response, or with an exception that
\* query catches (it returns dict())
QueryResponse(t, outcome) ==
    /\ tpc[t] = "inflight" /\ tkind[t] = "graphql"
    /\ LET s == release(permits, waiters, tpc)
       IN  /\ permits' = s.permits
           /\ tpc' = [s.tpc EXCEPT ![t] = IF outcome = "exception" THEN "done" ELSE "reading"]
    /\ tresult' = [tresult EXCEPT ![t] = IF outcome = "exception" THEN "empty" ELSE @]
    /\ UNCHANGED <<waiters, tkind, attempts, n202, slept, tpayload, max_connections>>
    /\ UNCHANGED <<cacheVars, remoteVars, statsVars>>

\* r_async.json() of query ends: a JSON value, null, or an exception
QueryRead(t, body) ==
    /\ tpc[t] = "reading" /\ tkind[t] = "graphql"
    /\ tpc' = [tpc EXCEPT ![t] = "done"]
    /\ tresult' = [tresult EXCEPT ![t] = IF body = "json" THEN "data" ELSE "empty"]
    /\ UNCHANGED <<permits, waiters, tkind, attempts, n202, slept, tpayload, max_connections>>
    /\ UNCHANGED <<cacheVars, remoteVars, statsVars>>

\* what the remote may do with a GET: the model lets it answer 202 or a null
\* body only to the first limit202 attempts of a call
RestOutcomes(t) ==
    {"200", "exception"} \cup (IF attempts[t] <= limit202 THEN {"202"} ELSE {})
RestBodies(t) ==
    {"json", "exception"} \cup (IF attempts[t] <= limit202 THEN {"null"} ELSE {})

\* session.get of query_rest ends: status 202, another status, or an exception
RestResponse(t, outcome) ==
    /\ tpc[t] = "inflight" /\ tkind[t] = "rest"
    /\ outcome \in RestOutcomes(t)
    /\ LET s == release(permits, waiters, tpc)
       IN  /\ permits' = s.permits
           /\ tpc' = [s.tpc EXCEPT ![t] =
                        CASE outcome = "exception" -> "done"
                          [] outcome = "202" -> "sleeping"
                          [] OTHER -> "reading"]
    /\ tresult' = [tresult EXCEPT ![t] = IF outcome = "exception" THEN "empty" ELSE @]
    /\ n202' = [n202 EXCEPT ![t] = IF outcome = "202" THEN @ + 1 ELSE @]
    /\ UNCHANGED <<waiters, tkind, attempts, slept, tpayload, max_connections>>
    /\ UNCHANGED <<cacheVars, remoteVars, statsVars>>

\* asyncio.sleep(2) ends, then continue
RestWake(t) ==
    /\ tpc[t] = "sleeping"
    /\ slept' = [slept EXCEPT ![t] = @ + BackoffSeconds]
    /\ LET s == RestNextIteration(permits, waiters, tpc, t)
       IN  /\ permits' = s.permits
           /\ waiters' = s.waiters
           /\ tpc' = s.tpc
           /\ attempts' = s.attempts
           /\ tresult' = s.tresult
    /\ UNCHANGED <<tkind, n202, tpayload, max_connections>>
    /\ UNCHANGED <<cacheVars, remoteVars, statsVars>>

\* r_async.json() of query_rest ends: a JSON value r (returned), null (the
\* loop goes on), or an exception (dict() is returned)
RestRead(t, body, r) ==
    /\ tpc[t] = "reading" /\ tkind[t] = "rest"
    /\ body \in RestBodies(t)
    /\ r \in payloads
    /\ LET s == IF body = "null"
                THEN RestNextIteration(permits, waiters, tpc, t)
                ELSE [permits |-> permits, waiters |-> waiters,
                      tpc |-> [tpc EXCEPT ![t] = "done"], attempts |-> attempts,
                      tresult |-> [tresult EXCEPT ![t] =
                                     IF body = "json" THEN "data" ELSE "empty"]]
       IN  /\ permits' = s.permits
           /\ waiters' = s.waiters
           /\ tpc' = s.tpc
           /\ attempts' = s.attempts
           /\ tresult' = s.tresult
    /\ tpayload' = [tpayload EXCEPT ![t] = IF body = "json" THEN r ELSE @]
    /\ UNCHANGED <<tkind, n202, slept, max_connections>>
    /\ UNCHANGED <<cacheVars, remoteVars, statsVars>>

\* no call made yet by the coroutines in T
InitTasks(T) ==
    /\ waiters = <<>>
    /\ tkind = [t \in T |-> "none"]
    /\ tpc = [t \in T |-> "idle"]
    /\ attempts = [t \in T |-> 0]
    /\ n202 = [t \in T |-> 0]
    /\ slept = [t \in T |-> 0]
    /\ tresult = [t \in T |-> "none"]
    /\ tpayload = [t \in T |-> EmptyDict]

(***************************************************************************)
(* The remote's repositories.  A node of an overview page is a record      *)
(* [kind, name, stars, forks, langs]: kind "null" is a null node, kind     *)
(* "no_stargazers" a node without its "stargazers" field.  A language edge *)
(* is [name, size].                                                        *)
(***************************************************************************)
Edge(name, size) == [name |-> name, size |-> size]
NullNode == [kind |-> "null", name |-> "", stars |-> 0, forks |-> 0, langs |-> <<>>]
RepoA == [kind |-> "repo", name |-> "a/one", stars |-> 1, forks |-> 8,
          langs |-> <<Edge("Python", 100), Edge("go", 30)>>]
RepoB == [kind |-> "repo", name |-> "b/two", stars |-> 2, forks |-> 16,
          langs |-> <<Edge("Go", 300), Edge("Python", 20)>>]
RepoZ == [kind |-> "repo", name |-> "z/zero", stars |-> 4, forks |-> 32,
          langs |-> <<Edge("Text", 0)>>]
BrokenNode == [kind |-> "no_stargazers", name |-> "m/broken", stars |-> 0,
               forks |-> 0, langs |-> <<>>]
RepoP == [kind |-> "repo", name |-> "p/py", stars |-> 64, forks |-> 128,
          langs |-> <<Edge("Python", 100)>>]
RepoG == [kind |-> "repo", name |-> "g/go", stars |-> 256, forks |-> 512,
          langs |-> <<Edge("Go", 300)>>]
AllNodes == {NullNode, RepoA, RepoB, RepoZ, BrokenNode, RepoP, RepoG}
RepoNames == {"a/one", "b/two", "z/zero", "m/broken", "p/py", "g/go"}
NodeOf(name) == CHOOSE n \in AllNodes : n.name = name
\* how often each name was on a page handed to the loop of get_stats: never
NoneServed == [n \in RepoNames |-> 0]
\* no overview page received yet
NoPage == [owned |-> <<>>, contrib |-> <<>>, merged |-> <<>>]
\* the names of a list of nodes ("" for a null node)
NamesOf(nodes) == [i \in DOMAIN nodes |-> nodes[i].name]

\* str.lower on the language names of the model
lower(s) ==
    CASE s \in {"GO", "Go", "go"} -> "go"
      [] s \in {"PYTHON", "Python", "python"} -> "python"
      [] s \in {"TEXT", "Text", "text"} -> "text"
      [] OTHER -> s

\* a connection of P pages asked for the page after cursor cur (0 is None, k
\* is the endCursor of page k): the page has nodes, hasNextPage, endCursor
\* (0 is null: the page after the last one is empty and has no cursor)
PageHasNodes(P, cur) == cur < P
hasNextPage(P, cur) == cur + 1 < P
endCursor(P, cur) == IF cur < P THEN cur + 1 ELSE 0

\* an entry of the language aggregate; prop is 100 * (size / langs_total),
\* kept as the fraction prop_num / prop_den, and absent while prop_den is 0
LangEntry(size, occurrences) ==
    [size |-> size, occurrences |-> occurrences, prop_num |-> 0, prop_den |-> 0]
NoLanguages == [n \in {} |-> LangEntry(0, 0)]

\* the test on a language edge: its name is excluded
LangExcludedExact(name, excl) == name \in excl
LangExcluded(name, excl) == lower(name) \in {lower(x) : x \in excl}

\* one edge of repo.get("languages").get("edges") merged into the aggregate
MergeLang(languages, e, excl) ==
    IF LangExcluded(e.name, excl) THEN languages
    ELSE IF e.name \in DOMAIN languages
    THEN [languages EXCEPT ![e.name] =
            [@ EXCEPT !.size = @ + e.size, !.occurrences = @ + 1]]
    ELSE [n \in DOMAIN languages \cup {e.name} |->
            IF n = e.name THEN LangEntry(e.size, 1) ELSE languages[n]]

RECURSIVE MergeLangs(_, _, _)
MergeLangs(languages, edges, excl) ==
    IF edges = <<>> THEN languages
    ELSE MergeLangs(MergeLang(languages, Head(edges), excl), Tail(edges), excl)

\* the test on a node: it is skipped
SkipRepoNoDedup(name, repos, excl) == name \in excl
SkipRepo(name, repos, excl) == name \in repos \/ name \in excl

\* the body of "for repo in repos" for one node.  st is [repos, stargazers,
\* forks, languages, raised]; after an exception nothing more is done
MergeRepo(st, node, exclRepos, exclLangs) ==
    IF st.raised # "none" \/ node.kind = "null" THEN st
    ELSE IF SkipRepo(node.name, st.repos, exclRepos) THEN st
    ELSE IF node.kind = "no_stargazers"
    THEN \* repo.get("stargazers") is None, after self._repos.add(name)
         [st EXCEPT !.repos = @ \cup {node.name}, !.raised = "AttributeError"]
    ELSE [repos |-> st.repos \cup {node.name},
          stargazers |-> st.stargazers + node.stars,
          forks |-> st.forks + node.forks,
          languages |-> MergeLangs(st.languages, node.langs, exclLangs),
          raised |-> "none"]

RECURSIVE MergeRepos(_, _, _, _)
MergeRepos(st, nodes, exclRepos, exclLangs) ==
    IF nodes = <<>> THEN st
    ELSE MergeRepos(MergeRepo(st, Head(nodes), exclRepos, exclLangs),
                    Tail(nodes), exclRepos, exclLangs)

\* repos = owned nodes, += contributed-to nodes unless forks are ignored
PageNodesAlways(owned, contrib, ignore) == owned \o contrib
PageNodes(owned, contrib, ignore) == IF ignore THEN owned ELSE owned \o contrib

RECURSIVE SumSizes(_, _)
SumSizes(languages, S) ==
    IF S = {} THEN 0
    ELSE LET n == CHOOSE x \in S : TRUE
         IN  languages[n].size + SumSizes(languages, S \ {n})

\* langs_total
LangsTotalOff(languages) == SumSizes(languages, DOMAIN languages) + 1
LangsTotal(languages) == SumSizes(languages, DOMAIN languages)

\* the loop after the pages: v["prop"] = 100 * (size / langs_total)
WithProps(languages) ==
    [n \in DOMAIN languages |->
        [languages[n] EXCEPT !.prop_num = 100 * languages[n].size,
                             !.prop_den = LangsTotal(languages)]]

\* the test that ends the loop: either pageInfo.get("hasNextPage", False),
\* read from the answer; an answer without data has no pageInfo
HasNextOff(ans, ownedMore, contribMore) == ownedMore \/ contribMore
HasNext(ans, ownedMore, contribMore) == ans = "ok" /\ (ownedMore \/ contribMore)

\* the cursor sent next: pageInfo.get("endCursor", previous)
NextCursor(P, cur) == endCursor(P, cur)

\* One pass of the while loop of get_stats on the answer to its overview
\* query.  ans is "ok", "empty" (query returned dict()) or "data_null"
\* ({"data": null}); nm says whether viewer.name is set; onode and cnode are
\* the nodes on the owned and the contributed-to page.  Gives the fields
\* afterwards and how the pass ends: "loop", "return" or "raise".
OverviewPass(c, ans, nm, onode, cnode) ==
    LET cur == [repos |-> Val(_repos), stargazers |-> Val(_stargazers),
                forks |-> Val(_forks), languages |-> Val(_languages),
                raised |-> "none"]
        owned == IF PageHasNodes(ownedPages, next_owned[c]) THEN <<onode>> ELSE <<>>
        contrib == IF PageHasNodes(contribPages, next_contrib[c]) THEN <<cnode>> ELSE <<>>
        nodes == IF ans = "ok" THEN PageNodes(owned, contrib, _ignore_forked_repos)
                 ELSE <<>>
        st == MergeRepos(cur, nodes, _exclude_repos, _exclude_langs)
        more == HasNext(ans, hasNextPage(ownedPages, next_owned[c]),
                        hasNextPage(contribPages, next_contrib[c]))
        zero == DOMAIN st.languages # {} /\ LangsTotal(st.languages) = 0
        name == CASE ans = "data_null" -> _name
                  [] ans = "empty" -> Some("No Name")
                  [] nm = "name" -> Some("The Name")
                  [] OTHER -> Some("login")
    IN  [name |-> name,
         repos |-> st.repos, stargazers |-> st.stargazers, forks |-> st.forks,
         languages |-> IF ~more /\ ~zero /\ st.raised = "none" /\ ans # "data_null"
                       THEN WithProps(st.languages) ELSE st.languages,
         \* the cursors are assigned after the loop over the nodes
         next_owned |-> IF more /\ st.raised = "none"
                        THEN NextCursor(ownedPages, next_owned[c])
                        ELSE next_owned[c],
         next_contrib |-> IF more /\ st.raised = "none"
                          THEN NextCursor(contribPages, next_contrib[c])
                          ELSE next_contrib[c],
         served |-> [n \in RepoNames |->
                      served[n] + Cardinality({j \in 1..Len(nodes) :
                                     nodes[j].kind # "null" /\ nodes[j].name = n})],
         last_page |-> IF ans = "ok"
                       THEN [owned |-> NamesOf(owned), contrib |-> NamesOf(contrib),
                             merged |-> NamesOf(nodes)]
                       ELSE NoPage,
         ends |-> CASE ans = "data_null" -> "raise"
                    [] st.raised # "none" -> "raise"
                    [] more -> "loop"
                    [] zero -> "raise"
                    [] OTHER -> "return",
         exc |-> CASE ans = "data_null" -> "AttributeError"
                   [] st.raised # "none" -> st.raised
                   [] ~more /\ zero -> "ZeroDivisionError"
                   [] OTHER -> "none"]

(***************************************************************************)
(* Stats.  Callers are the coroutines that read the accessors of one Stats *)
(* instance; cpc is where a caller stands:                                 *)
(*   idle       it has read nothing yet                                    *)
(*   overview   in get_stats, awaiting session.post of the overview query  *)
(*   overview_json, years_json, contribs_json                              *)
(*              the post returned, awaiting r_async.json()                 *)
(*   years      in total_contributions, awaiting the contribution years    *)
(*   contribs   in total_contributions, awaiting the counts per year       *)
(*   gather     in lines_changed / views, awaiting asyncio.gather          *)
(*   returned   the accessor returned ret                                  *)
(*   raised     the accessor raised the exception named in ret             *)
(* The coroutines of a fan-out are the tasks                               *)
(* <<caller, accessor, repository>>.                                       *)
(***************************************************************************)
Callers == {"c1", "c2"}
Accessors == {"name", "stargazers", "forks", "languages", "languages_proportional",
              "repos", "total_contributions", "lines_changed", "views"}
\* the coroutines asyncio.gather runs: one per caller's read of lines_changed
\* or views and repository
FanTasksOf(C, N) == C \X {"lines_changed", "views"} \X N
FanTasks == FanTasksOf(Callers, RepoNames)

\* an item of a REST body: an entry of the contributor list (kind "user": its
\* author's login is the username, with weeks adding up to a and d;
\* "user_upper": the login is the username in upper case; "other": another
\* login; "author_not_dict"; "bad_week": the username's entry, a week of it
\* not an object), a day of the views (kind "view", a its count), or
\* something that is no object at all ("not_dict")
Item(kind, a, d) == [kind |-> kind, a |-> a, d |-> d]

\* author != self.username, on the kind of the entry
LoginMatchesAnyCase(kind) == kind \in {"user", "user_upper"}
LoginMatches(kind) == kind = "user"

\* fetch_repo_stats on what query_rest returned: the (additions, deletions)
\* it returns, or the exception it ends with
RECURSIVE AuthorSum(_)
AuthorSum(items) ==
    IF items = <<>> THEN [exc |-> FALSE, a |-> 0, d |-> 0]
    ELSE LET e == Head(items)
             rest == AuthorSum(Tail(items))
         IN  CASE e.kind = "bad_week" -> [exc |-> TRUE, a |-> 0, d |-> 0]
               [] LoginMatches(e.kind) -> [rest EXCEPT !.a = @ + e.a, !.d = @ + e.d]
               [] OTHER -> rest
fetch_repo_stats(res, r) ==
    IF res # "data" \/ r.shape = "dict" THEN [exc |-> FALSE, a |-> 0, d |-> 0]
    ELSE AuthorSum(r.items)

\* fetch_repo_views on what query_rest returned
RECURSIVE ViewSum(_)
ViewSum(items) ==
    IF items = <<>> THEN [exc |-> FALSE, a |-> 0, d |-> 0]
    ELSE LET e == Head(items)
             rest == ViewSum(Tail(items))
         IN  CASE e.kind = "not_dict" -> [exc |-> TRUE, a |-> 0, d |-> 0]
               [] e.kind = "view" -> [rest EXCEPT !.a = @ + e.a]
               [] OTHER -> rest
fetch_repo_views(res, r) ==
    IF res # "data" THEN [exc |-> FALSE, a |-> 0, d |-> 0]
    ELSE IF r.shape = "list" THEN [exc |-> TRUE, a |-> 0, d |-> 0]
    ELSE ViewSum(r.items)

\* the result of the coroutine of task t, once its query_rest has returned
TaskResult(t) ==
    IF t[2] = "lines_changed" THEN fetch_repo_stats(tresult[t], tpayload[t])
    ELSE fetch_repo_views(tresult[t], tpayload[t])

\* asyncio.gather(..., return_exceptions=True)
return_exceptionsOff == FALSE
return_exceptions == TRUE

\* the loop over the results of gather: exceptions are skipped
RECURSIVE SumResults(_)
SumResults(T) ==
    IF T = {} THEN [a |-> 0, d |-> 0]
    ELSE LET t == CHOOSE x \in T : TRUE
             r == TaskResult(t)
             rest == SumResults(T \ {t})
         IN  IF r.exc THEN rest ELSE [a |-> rest.a + r.a, d |-> rest.d + r.d]

\* the coroutines of the fan-out of accessor a read by c
Launched(c, a) == {t \in Tasks : t[1] = c /\ t[2] = a /\ tpc[t] # "idle"}

\* tuple(cached) in lines_changed
TupleOf(v) ==
    CASE v.t \in {"list", "tuple"} -> [exc |-> "none", v |-> PyTuple(v.a, v.b)]
      [] v.t \in {"dict_int_key", "dict_str_key"} ->
           [exc |-> "none", v |-> [t |-> "tuple_of_keys", a |-> v.a, b |-> 0]]
      [] OTHER -> [exc |-> "TypeError", v |-> PyNone]

\* {k: v.get("prop", 0)} of languages_proportional
Props(languages) ==
    [n \in DOMAIN languages |->
        [num |-> languages[n].prop_num, den |-> languages[n].prop_den]]

(***************************************************************************)
(* The state one caller's step works on, as a record, and the operators    *)
(* that are the pieces of the accessors' code.                             *)
(***************************************************************************)
Cur(c) ==
    [name |-> _name, stargazers |-> _stargazers, forks |-> _forks,
     languages |-> _languages, repos |-> _repos,
     total_contributions |-> _total_contributions,
     lines_changed |-> _lines_changed, views |-> _views,
     files |-> files, cres |-> cres,
     pc |-> cpc[c], ret |-> ret[c], outer |-> outer[c],
     next_owned |-> next_owned[c], next_contrib |-> next_contrib[c],
     permits |-> permits, posts |-> posts, served |-> served,
     last_page |-> last_page,
     launch |-> {}]

SReturn(s, v) == [s EXCEPT !.pc = "returned", !.ret = Some(v)]
SRaise(s, e) == [s EXCEPT !.pc = "raised", !.ret = Some(e)]

\* session.post through Queries.query: a permit is taken
SPost(s, pc) == [s EXCEPT !.pc = pc, !.posts = @ + 1, !.permits = @ - 1]

\* self.cache.get(key), when the cache is enabled
SCacheGet(s, key, fault) ==
    LET o == GetOutcome(s.files, key, now, CacheTtl, fault)
    IN  [s EXCEPT !.files = o.files,
                  !.cres = [op |-> "get", key |-> key, arg |-> PyNone,
                            fault |-> fault, ret |-> o.ret, raised |-> o.raised]]

\* self.cache.set(key, v), when the cache is enabled
SCacheSetOff(s, key, v, fault) == s
SCacheSet(s, key, v, fault) ==
    IF cache_enabled
    THEN [s EXCEPT !.files = SetFiles(s.files, key, v, now, fault),
                   !.cres = [op |-> "set", key |-> key, arg |-> v, fault |-> fault,
                             ret |-> PyNone, raised |-> "none"]]
    ELSE s

\* get_stats up to its first await
SBeginGetStats(s) ==
    SPost([s EXCEPT !.stargazers = Some(0), !.forks = Some(0),
                    !.languages = Some(NoLanguages), !.repos = Some({}),
                    !.next_owned = 0, !.next_contrib = 0, !.served = NoneServed,
                    !.last_page = NoPage],
          "overview")

\* lines_changed from the results of gather on
SFinishLinesChanged(s, sum, fault) ==
    SReturn(SCacheSet([s EXCEPT !.lines_changed = Some(PyTuple(sum.a, sum.d))],
                      KeyLinesChanged, PyList(sum.a, sum.d), fault),
            PyTuple(sum.a, sum.d))

\* views from the results of gather on
SFinishViews(s, sum, fault) ==
    SReturn(SCacheSet([s EXCEPT !.views = Some(PyInt(sum.a))],
                      KeyViews, PyInt(sum.a), fault),
            PyInt(sum.a))

SFinish(s, a, sum, fault) ==
    IF a = "lines_changed" THEN SFinishLinesChanged(s, sum, fault)
    ELSE SFinishViews(s, sum, fault)

\* lines_changed / views once "repos = await self.repos" has its value: the
\* coroutines are handed to gather; with no repository gather is done at once
SFanOut(s, a, fault) ==
    IF Val(s.repos) = {} THEN SFinish(s, a, [a |-> 0, d |-> 0], fault)
    ELSE [s EXCEPT !.pc = "gather", !.launch = Val(s.repos)]

\* the accessor goes on after "await self.get_stats()"
SAfterGetStats(s, a, fault) ==
    CASE a = "get_stats" -> SReturn(s, PyNone)
      [] a = "name" -> SReturn(s, Val(s.name))
      [] a = "stargazers" -> SReturn(s, Val(s.stargazers))
      [] a = "forks" -> SReturn(s, Val(s.forks))
      [] a = "languages" -> SReturn(s, Val(s.languages))
      [] a = "languages_proportional" -> SReturn(s, Props(Val(s.languages)))
      [] a = "repos" -> SReturn(s, Val(s.repos))
      [] OTHER -> SFanOut(s, a, fault)

\* an accessor whose field is set returns it; else get_stats runs
SSnapshotAccessor(s, field, a) ==
    IF field # None
    THEN SReturn(s, IF a = "languages_proportional" THEN Props(Val(field)) ELSE Val(field))
    ELSE SBeginGetStats(s)

\* the order of the tests of lines_changed and views: the switch, then the cache
SwitchedOffIgnored(on) == FALSE
SwitchedOff(on) == ~on

\* the test on what cache.get returned
CacheHitNever(v) == FALSE
CacheHit(v) == v # PyNone

\* total_contributions up to its first await
STotalContributions(s, fault) ==
    LET g == SCacheGet(s, KeyTotalContributions, fault)
    IN  IF s.total_contributions # None THEN SReturn(s, Val(s.total_contributions))
        ELSE IF cache_enabled /\ g.cres.raised # "none" THEN SRaise(g, g.cres.raised)
        ELSE IF cache_enabled /\ CacheHit(g.cres.ret)
        THEN SReturn([g EXCEPT !.total_contributions = Some(g.cres.ret)], g.cres.ret)
        ELSE SPost([(IF cache_enabled THEN g ELSE s)
                      EXCEPT !.total_contributions = Some(PyInt(0))], "years")

\* lines_changed (a = "lines_changed") and views (a = "views") up to their
\* first await
SFanOutAccessor(s, a, fault) ==
    LET field == IF a = "lines_changed" THEN s.lines_changed ELSE s.views
        on == IF a = "lines_changed" THEN _include_lines_changed ELSE _include_views
        zero == IF a = "lines_changed" THEN PyTuple(0, 0) ELSE PyInt(0)
        key == IF a = "lines_changed" THEN KeyLinesChanged ELSE KeyViews
        g == SCacheGet(s, key, fault)
        hit == IF a = "lines_changed" THEN TupleOf(g.cres.ret)
               ELSE [exc |-> "none", v |-> g.cres.ret]
        after == IF cache_enabled THEN g ELSE s
    IN  IF field # None THEN SReturn(s, Val(field))
        ELSE IF SwitchedOff(on)
        THEN SReturn(IF a = "lines_changed" THEN [s EXCEPT !.lines_changed = Some(zero)]
                     ELSE [s EXCEPT !.views = Some(zero)], zero)
        ELSE IF cache_enabled /\ g.cres.raised # "none" THEN SRaise(g, g.cres.raised)
        ELSE IF cache_enabled /\ CacheHit(g.cres.ret)
        THEN IF hit.exc # "none" THEN SRaise(g, hit.exc)
             ELSE SReturn(IF a = "lines_changed"
                          THEN [g EXCEPT !.lines_changed = Some(hit.v)]
                          ELSE [g EXCEPT !.views = Some(hit.v)], hit.v)
        ELSE IF after.repos # None THEN SFanOut(after, a, fault)
        ELSE SBeginGetStats(after)

\* accessor a (or get_stats itself) from its call to the point where it is
\* suspended, or to its return
SRead(s, a, fault) ==
    CASE a = "get_stats" -> SBeginGetStats(s)
      [] a = "name" -> SSnapshotAccessor(s, s.name, a)
      [] a = "stargazers" -> SSnapshotAccessor(s, s.stargazers, a)
      [] a = "forks" -> SSnapshotAccessor(s, s.forks, a)
      [] a \in {"languages", "languages_proportional"} ->
           SSnapshotAccessor(s, s.languages, a)
      [] a = "repos" -> SSnapshotAccessor(s, s.repos, a)
      [] a = "total_contributions" -> STotalContributions(s, fault)
      [] OTHER -> SFanOutAccessor(s, a, fault)

\* to_str awaits the accessors in this order
ToStrOrder == <<"languages_proportional", "lines_changed", "name", "stargazers",
                "forks", "total_contributions", "repos", "views">>
\* the string to_str returns
PyStr == [t |-> "str", a |-> 0, b |-> 0]

\* format(v, ","), the {...:,} of the f-string, on a value of
\* total_contributions or views: the exception it raises, or "none"
FormatRaises(v) == IF v.t = "int" THEN "none" ELSE "TypeError"
\* {lines_changed[0]:,}, {lines_changed[1]:,} and their sum: the tuple made
\* of the keys of a cached object holds a str
FormatLinesRaises(v) == IF v.t = "tuple_of_keys" THEN "ValueError" ELSE "none"
\* what the f-string of to_str formats once the accessor named a has
\* returned, before the next accessor is awaited: the value of
\* total_contributions and of views; after len(await self.repos), the tuple
\* lines_changed returned earlier.  The name, the ints of stargazers and
\* forks and the floats of the languages format without an exception.
ToStrFormat(s, a) ==
    CASE a \in {"total_contributions", "views"} -> FormatRaises(Val(s.ret))
      [] a = "repos" -> FormatLinesRaises(Val(s.lines_changed))
      [] OTHER -> "none"

\* to_str after its i-th accessor has come to s: when the accessor has
\* returned, to_str formats what the f-string holds up to the next await and
\* goes on into the next accessor in the same callback, and returns after
\* the last; an exception passes through it
RECURSIVE ToStrFrom(_, _, _)
ToStrFrom(s, i, fault) ==
    IF s.pc # "returned" THEN [a |-> ToStrOrder[i], s |-> s]
    ELSE IF ToStrFormat(s, ToStrOrder[i]) # "none"
    THEN [a |-> "to_str", s |-> SRaise(s, ToStrFormat(s, ToStrOrder[i]))]
    ELSE IF i = Len(ToStrOrder) THEN [a |-> "to_str", s |-> SReturn(s, PyStr)]
    ELSE ToStrFrom(SRead([s EXCEPT !.ret = None], ToStrOrder[i + 1], fault),
                   i + 1, fault)

\* the coroutine of the caller runs until it is suspended or done: inside
\* to_str an accessor that returns is followed by the next
RunOn(a, s, fault) ==
    IF s.outer = "to_str" /\ a # "to_str"
    THEN ToStrFrom(s, CHOOSE i \in DOMAIN ToStrOrder : ToStrOrder[i] = a, fault)
    ELSE [a |-> a, s |-> s]

\* the step of caller c, in accessor a, that leaves the state s.  The
\* semaphore of Stats has DefaultMaxConnections permits, more than there are
\* callers and coroutines: no acquire of a caller is suspended
Apply(c, a, s0, fault) ==
    \E r \in {RunOn(a, s0, fault)} : \E s \in {r.s} :
    \* the coroutines handed to asyncio.gather: created, none has run
    LET T == {<<c, r.a, x>> : x \in s.launch}
    IN  /\ waiters = <<>> /\ s.permits >= 0
        /\ \A t \in T : tpc[t] = "idle"
        /\ _name' = s.name /\ _stargazers' = s.stargazers /\ _forks' = s.forks
        /\ _languages' = s.languages /\ _repos' = s.repos
        /\ _total_contributions' = s.total_contributions
        /\ _lines_changed' = s.lines_changed /\ _views' = s.views
        /\ files' = s.files /\ cres' = s.cres
        /\ acc' = [acc EXCEPT ![c] = r.a]
        /\ cpc' = [cpc EXCEPT ![c] = s.pc]
        /\ ret' = [ret EXCEPT ![c] = s.ret]
        /\ outer' = [outer EXCEPT ![c] = s.outer]
        /\ next_owned' = [next_owned EXCEPT ![c] = s.next_owned]
        /\ next_contrib' = [next_contrib EXCEPT ![c] = s.next_contrib]
        /\ posts' = s.posts /\ served' = s.served /\ last_page' = s.last_page
        /\ permits' = s.permits
        /\ tpc' = [t \in Tasks |-> IF t \in T THEN "created" ELSE tpc[t]]
        /\ tkind' = [t \in Tasks |-> IF t \in T THEN "rest" ELSE tkind[t]]
        /\ UNCHANGED <<now, max_connections, waiters, attempts, n202, slept,
                       tresult, tpayload>>
        /\ UNCHANGED <<remoteVars, cfgVars>>

\* caller c reads accessor a (a = "get_stats": it calls get_stats)
Read(c, a, fault) ==
    /\ cpc[c] \in {"idle", "returned", "raised"}
    /\ reads[c] < MaxReads
    /\ reads' = [reads EXCEPT ![c] = @ + 1]
    /\ Apply(c, a, SRead([Cur(c) EXCEPT !.ret = None, !.outer = "none"], a, fault),
             fault)

\* caller c calls to_str
to_str(c, fault) ==
    /\ cpc[c] \in {"idle", "returned", "raised"}
    /\ reads[c] < MaxReads
    /\ reads' = [reads EXCEPT ![c] = @ + 1]
    /\ Apply(c, ToStrOrder[1],
             SRead([Cur(c) EXCEPT !.ret = None, !.outer = "to_str"],
                   ToStrOrder[1], fault),
             fault)

\* a coroutine of the fan-out runs for the first time: fetch_repo_stats /
\* fetch_repo_views calls query_rest
FetchStart(t) ==
    /\ tpc[t] = "created"
    /\ CallQueryRest(t)

\* where a caller stands while its query is in session.post, and while it is
\* in r_async.json()
PostPcs == {"overview", "years", "contribs"}
JsonPc(pc) ==
    CASE pc = "overview" -> "overview_json"
      [] pc = "years" -> "years_json"
      [] pc = "contribs" -> "contribs_json"

\* session.post of a caller's query returns a response: the semaphore is
\* left, r_async.json() is awaited
PostReturned(c) ==
    /\ cpc[c] \in PostPcs
    /\ cpc' = [cpc EXCEPT ![c] = JsonPc(@)]
    /\ LET s == release(permits, waiters, tpc)
       IN  permits' = s.permits /\ tpc' = s.tpc
    /\ UNCHANGED <<acc, ret, outer, next_owned, next_contrib, reads>>
    /\ UNCHANGED <<max_connections, waiters, tkind, attempts, n202, slept,
                   tresult, tpayload>>
    /\ UNCHANGED <<cacheVars, remoteVars, cfgVars, snapshotVars, derivedVars, seenVars>>

\* Queries.query of caller c, sent at pc, returns ans: after r_async.json(),
\* or, an empty result, when session.post raises
QueryReturns(c, pc, ans) ==
    \/ cpc[c] = JsonPc(pc)
    \/ cpc[c] = pc /\ ans = "empty"
\* the permits when it returns: an exception of session.post leaves the
\* semaphore
PermitsAfter(c, pc) == IF cpc[c] = pc THEN permits + 1 ELSE permits

\* the overview query of get_stats is answered: the rest of the pass of the
\* loop, and either the next query or the end of get_stats and what the
\* accessor does after it
OverviewResponse(c, ans, nm, onode, cnode, fault) ==
    /\ QueryReturns(c, "overview", ans)
    /\ ans \in answers /\ onode \in catalog /\ cnode \in catalog
    /\ LET p == OverviewPass(c, ans, nm, onode, cnode)
           s == [Cur(c) EXCEPT !.name = p.name, !.repos = Some(p.repos),
                               !.stargazers = Some(p.stargazers),
                               !.forks = Some(p.forks),
                               !.languages = Some(p.languages),
                               !.next_owned = p.next_owned,
                               !.next_contrib = p.next_contrib,
                               !.served = p.served,
                               !.last_page = p.last_page,
                               !.permits = PermitsAfter(c, "overview")]
       IN  Apply(c, acc[c],
                 CASE p.ends = "loop" -> SPost(s, "overview")
                   [] p.ends = "raise" -> SRaise(s, p.exc)
                   [] OTHER -> SAfterGetStats(s, acc[c], fault),
                 fault)
    /\ UNCHANGED reads

\* the contribution-years query is answered; the query for the counts follows
YearsResponse(c, ans) ==
    /\ QueryReturns(c, "years", ans)
    /\ ans \in answers
    /\ LET s == [Cur(c) EXCEPT !.permits = PermitsAfter(c, "years")]
       IN  Apply(c, acc[c],
                 IF ans = "data_null" THEN SRaise(s, "AttributeError")
                 ELSE SPost(s, "contribs"),
                 "none")
    /\ UNCHANGED reads

\* the totals a year's contributions add up to, in the model
ContribTotals == {0, 5}

\* the counts per year are answered: they are added up, cached and returned
ContribsResponse(c, ans, n, fault) ==
    /\ QueryReturns(c, "contribs", ans)
    /\ ans \in answers
    /\ LET s == [Cur(c) EXCEPT !.permits = PermitsAfter(c, "contribs")]
           total == PyInt(Val(s.total_contributions).a + (IF ans = "ok" THEN n ELSE 0))
       IN  Apply(c, acc[c],
                 IF ans = "data_null" THEN SRaise(s, "AttributeError")
                 ELSE SReturn(SCacheSet([s EXCEPT !.total_contributions = Some(total)],
                                        KeyTotalContributions, total, fault),
                              total),
                 fault)
    /\ UNCHANGED reads

\* gather is done: every coroutine of the fan-out has ended
GatherDone(c, fault) ==
    /\ cpc[c] = "gather"
    /\ \A t \in Launched(c, acc[c]) : tpc[t] = "done"
    /\ LET T == Launched(c, acc[c])
           failed == \E t \in T : TaskResult(t).exc
       IN  Apply(c, acc[c],
                 IF failed /\ ~return_exceptions THEN SRaise(Cur(c), "Exception")
                 ELSE SFinish(Cur(c), acc[c], SumResults(T), fault),
                 fault)
    /\ UNCHANGED reads

\* Stats(...) is constructed again for the same user, by a later run of the
\* program over the same cache directory: the memoized fields are None, the
\* client and its semaphore are new, the two switches are as the run sets
\* them.  The requests the remote has seen stay counted.
NewStats(include_views, include_lines_changed) ==
    /\ \A c \in Callers : cpc[c] \in {"idle", "returned", "raised"}
    /\ \A t \in Tasks : tpc[t] \in {"idle", "done"}
    /\ _include_views' = include_views
    /\ _include_lines_changed' = include_lines_changed
    /\ _name' = None /\ _stargazers' = None /\ _forks' = None
    /\ _languages' = None /\ _repos' = None
    /\ _total_contributions' = None /\ _lines_changed' = None /\ _views' = None
    /\ acc' = [c \in Callers |-> "none"]
    /\ cpc' = [c \in Callers |-> "idle"]
    /\ ret' = [c \in Callers |-> None]
    /\ outer' = [c \in Callers |-> "none"]
    /\ next_owned' = [c \in Callers |-> 0]
    /\ next_contrib' = [c \in Callers |-> 0]
    /\ served' = NoneServed /\ last_page' = NoPage
    /\ permits' = max_connections /\ waiters' = <<>>
    /\ tkind' = [t \in Tasks |-> "none"]
    /\ tpc' = [t \in Tasks |-> "idle"]
    /\ attempts' = [t \in Tasks |-> 0]
    /\ n202' = [t \in Tasks |-> 0]
    /\ slept' = [t \in Tasks |-> 0]
    /\ tresult' = [t \in Tasks |-> "none"]
    /\ tpayload' = [t \in Tasks |-> EmptyDict]
    /\ UNCHANGED <<max_connections, reads, posts>>
    /\ UNCHANGED <<_exclude_repos, _exclude_langs, _ignore_forked_repos, cache_enabled>>
    /\ UNCHANGED <<cacheVars, remoteVars>>
(***************************************************************************)
(* Initial conditions shared by the specifications.                        *)
(***************************************************************************)
\* the coroutines of the test of the Queries client
ClientTasks == {"t1", "t2", "t3"}

\* Stats.__init__ with its default arguments
InitConfigDefault ==
    /\ _exclude_repos = {} /\ _exclude_langs = {}
    /\ _ignore_forked_repos = FALSE
    /\ cache_enabled = FALSE
    /\ _include_views = TRUE /\ _include_lines_changed = TRUE

\* Stats.__init__: every memoized field is None; nobody has read anything
InitStats ==
    /\ _name = None /\ _stargazers = None /\ _forks = None
    /\ _languages = None /\ _repos = None
    /\ _total_contributions = None /\ _lines_changed = None /\ _views = None
    /\ acc = [c \in Callers |-> "none"]
    /\ cpc = [c \in Callers |-> "idle"]
    /\ ret = [c \in Callers |-> None]
    /\ next_owned = [c \in Callers |-> 0]
    /\ next_contrib = [c \in Callers |-> 0]
    /\ reads = [c \in Callers |-> 0]
    /\ outer = [c \in Callers |-> "none"]
    /\ posts = 0 /\ served = NoneServed /\ last_page = NoPage

\* a remote with one page of each collection and one repository
InitRemoteSmall ==
    /\ payloads = {EmptyDict}
    /\ ownedPages = 1 /\ contribPages = 1
    /\ catalog = {RepoA}
    /\ answers = {"ok"}

\* Queries.__init__ with the default max_connections
InitSemaphoreDefault ==
    /\ max_connections = DefaultMaxConnections
    /\ permits = DefaultMaxConnections

(***************************************************************************)
(* SpecCache: one SimpleCache, called with any key and value, while time   *)
(* passes and files get damaged.                                           *)
(***************************************************************************)
InitSpecCache ==
    /\ InitCache /\ InitTasks(ClientTasks) /\ InitSemaphoreDefault
    /\ limit202 = 0 /\ InitRemoteSmall /\ InitConfigDefault /\ InitStats

NextCache ==
    \/ \E k \in TestKeys, ft \in DirFaults :
         SimpleCache_get(k, ft) /\ UNCHANGED <<semVars, taskVars, remoteVars, statsVars>>
    \/ \E k \in TestKeys, v \in CacheValues, ft \in CacheFaults :
         SimpleCache_set(k, v, ft) /\ UNCHANGED <<semVars, taskVars, remoteVars, statsVars>>
    \/ Tick /\ UNCHANGED <<semVars, taskVars, remoteVars, statsVars>>
    \/ \E k \in TestKeys, kind \in BrokenKinds :
         Damage(k, kind) /\ UNCHANGED <<semVars, taskVars, remoteVars, statsVars>>

SpecCache == InitSpecCache /\ [][NextCache]_vars

(***************************************************************************)
(* SpecQueries: one Queries client with 1..MaxConn connections, used by    *)
(* three coroutines at once.                                               *)
(***************************************************************************)
InitSpecQueries ==
    /\ InitCache /\ InitTasks(ClientTasks)
    /\ max_connections \in 1..MaxConn
    /\ permits = max_connections
    /\ limit202 = Max202 /\ InitRemoteSmall /\ InitConfigDefault /\ InitStats

NextQueries ==
    \/ \E t \in Tasks : query(t)
    \/ \E t \in Tasks : query_rest(t)
    \/ \E t \in Tasks : AcquireResume(t)
    \/ \E t \in Tasks, o \in {"response", "exception"} : QueryResponse(t, o)
    \/ \E t \in Tasks, b \in {"json", "null", "exception"} : QueryRead(t, b)
    \/ \E t \in Tasks, o \in {"200", "202", "exception"} : RestResponse(t, o)
    \/ \E t \in Tasks : RestWake(t)
    \/ \E t \in Tasks, b \in {"json", "null", "exception"}, r \in payloads : RestRead(t, b, r)

SpecQueries == InitSpecQueries /\ [][NextQueries]_vars

\* the event loop runs every coroutine that can run, and every request ends
SpecQueriesFair == SpecQueries /\ WF_vars(NextQueries)

(***************************************************************************)
(* SpecRest: one call of query_rest against a remote that may answer 202   *)
(* or a null body every time.                                              *)
(***************************************************************************)
InitSpecRest ==
    /\ InitCache /\ InitTasks(ClientTasks) /\ InitSemaphoreDefault
    /\ limit202 = RestAttempts /\ InitRemoteSmall /\ InitConfigDefault /\ InitStats

NextRest ==
    \/ query_rest("t1")
    \/ \E o \in {"200", "202", "exception"} : RestResponse("t1", o)
    \/ RestWake("t1")
    \/ \E b \in {"json", "null", "exception"}, r \in payloads : RestRead("t1", b, r)

SpecRest == InitSpecRest /\ [][NextRest]_vars

\* the event loop runs every coroutine that can run, and the remote answers
SpecRestFair == SpecRest /\ WF_vars(NextRest)

(***************************************************************************)
(* SpecStats: one caller reads the fields get_stats computes, from a       *)
(* remote whose pages hold any node of the catalogue, under every          *)
(* configuration of the exclusions.                                        *)
(***************************************************************************)
SnapshotAccessors == {"get_stats", "stargazers", "forks", "languages", "repos"}

InitSpecStats ==
    /\ InitCache /\ InitTasks({}) /\ InitSemaphoreDefault /\ InitStats
    /\ limit202 = 0
    /\ payloads = {EmptyDict}
    /\ ownedPages \in 1..MaxMergePages /\ contribPages \in 1..MaxMergePages
    /\ catalog = {NullNode, RepoA, RepoB}
    /\ answers = {"ok", "empty"}
    /\ _exclude_repos \in {{}, {"b/two"}}
    /\ _exclude_langs \in {{}, {"GO"}}
    /\ _ignore_forked_repos \in BOOLEAN
    /\ cache_enabled = FALSE
    /\ _include_views = TRUE /\ _include_lines_changed = TRUE

NextStats ==
    \/ \E a \in SnapshotAccessors : Read("c1", a, "none")
    \/ PostReturned("c1")
    \/ \E ans \in answers, onode \in catalog, cnode \in catalog :
         OverviewResponse("c1", ans, "name", onode, cnode, "none")

SpecStats == InitSpecStats /\ [][NextStats]_vars

(***************************************************************************)
(* SpecPaging: get_stats against collections of 1..MaxPages pages.        *)
(***************************************************************************)
InitSpecPaging ==
    /\ InitCache /\ InitTasks({}) /\ InitSemaphoreDefault /\ InitStats
    /\ InitConfigDefault
    /\ limit202 = 0
    /\ payloads = {EmptyDict}
    /\ ownedPages \in 1..MaxPages /\ contribPages \in 1..MaxPages
    /\ catalog = {RepoA, RepoB}
    /\ answers = {"ok"}

NextPaging ==
    \/ Read("c1", "get_stats", "none")
    \/ PostReturned("c1")
    \/ \E nm \in {"name", "login"}, onode \in catalog, cnode \in catalog :
         OverviewResponse("c1", "ok", nm, onode, cnode, "none")

SpecPaging == InitSpecPaging /\ [][NextPaging]_vars

(***************************************************************************)
(* SpecAcc: one caller reads accessors one after another.  The remote may  *)
(* fail or answer malformed bodies; the cache directory may hold what an   *)
(* earlier run wrote, fresh or expired.                                    *)
(***************************************************************************)
\* the entries an earlier run left, all written at time ts
EarlierRun(ts) ==
    [k \in CacheKeys |->
        CASE k = KeyTotalContributions -> Entry(ts, JsonDump(PyInt(5)))
          [] k = KeyLinesChanged -> Entry(ts, JsonDump(PyList(5, 3)))
          [] OTHER -> Entry(ts, JsonDump(PyInt(7)))]

\* bodies of the REST endpoints
RestPayloads ==
    {Json("list", <<Item("other", 9, 9), Item("user", 5, 3)>>),
     Json("dict", <<Item("view", 7, 0)>>),
     Json("list", <<Item("bad_week", 0, 0)>>)}

InitSpecAcc ==
    /\ InitTasks(FanTasksOf({"c1"}, {"a/one", "b/two", "z/zero", "m/broken"})) /\ InitSemaphoreDefault /\ InitStats
    /\ now = StartTime /\ cres = NoCall
    /\ cache_enabled \in BOOLEAN
    /\ files \in IF cache_enabled
                 THEN {[k \in CacheKeys |-> NoFile], EarlierRun(StartTime),
                       EarlierRun(StartTime - CacheTtl - 1)}
                 ELSE {[k \in CacheKeys |-> NoFile]}
    /\ _include_views \in BOOLEAN /\ _include_lines_changed \in BOOLEAN
    /\ _exclude_repos = {} /\ _exclude_langs = {} /\ _ignore_forked_repos = FALSE
    /\ limit202 = 0
    /\ payloads = RestPayloads
    /\ ownedPages = 1 /\ contribPages = 1
    /\ catalog = {RepoA, RepoB, RepoZ, BrokenNode}
    /\ answers = {"ok", "empty", "data_null"}

NextAcc ==
    \/ \E a \in Accessors : Read("c1", a, "none")
    \/ PostReturned("c1")
    \/ \E t \in Tasks : FetchStart(t)
    \/ \E ans \in answers, onode \in catalog, cnode \in catalog :
         OverviewResponse("c1", ans, "name", onode, cnode, "none")
    \/ \E ans \in answers : YearsResponse("c1", ans)
    \/ \E ans \in answers, n \in ContribTotals, ft \in {"none", "write"} :
         ContribsResponse("c1", ans, n, ft)
    \/ \E t \in Tasks, o \in {"200", "exception"} : RestResponse(t, o)
    \/ \E t \in Tasks, b \in {"json", "exception"}, r \in payloads : RestRead(t, b, r)
    \/ \E ft \in {"none", "write"} : GatherDone("c1", ft)

SpecAcc == InitSpecAcc /\ [][NextAcc]_vars

(***************************************************************************)
(* SpecMemo: the accessors of the fields of get_stats are read one after   *)
(* another, by either caller, against a remote that may answer the         *)
(* overview query with {"data": null}.                                     *)
(***************************************************************************)
MemoAccessors == {"name", "stargazers", "forks", "languages", "repos"}

\* no read is under way
Quiescent == \A c \in Callers : cpc[c] \in {"idle", "returned", "raised"}

InitSpecMemo ==
    /\ InitCache /\ InitTasks({}) /\ InitSemaphoreDefault /\ InitStats
    /\ InitConfigDefault
    /\ limit202 = 0
    /\ payloads = {EmptyDict}
    /\ ownedPages = 1 /\ contribPages = 1
    /\ catalog = {RepoA, RepoB}
    /\ answers = {"ok", "data_null"}

NextMemo ==
    \/ \E c \in Callers, a \in MemoAccessors : Quiescent /\ Read(c, a, "none")
    \/ \E c \in Callers : PostReturned(c)
    \/ \E c \in Callers, ans \in answers, onode \in catalog, cnode \in catalog :
         OverviewResponse(c, ans, "name", onode, cnode, "none")

SpecMemo == InitSpecMemo /\ [][NextMemo]_vars

(***************************************************************************)
(* SpecLangs: the language aggregate and its proportions are read after    *)
(* get_stats merged repositories whose languages have some or no bytes.    *)
(***************************************************************************)
LangAccessors == {"languages", "languages_proportional"}

InitSpecLangs ==
    /\ InitCache /\ InitTasks({}) /\ InitSemaphoreDefault /\ InitStats
    /\ limit202 = 0
    /\ payloads = {EmptyDict}
    /\ ownedPages \in 1..MaxMergePages /\ contribPages \in 1..MaxMergePages
    /\ catalog = {RepoP, RepoG, RepoZ}
    /\ answers = {"ok"}
    /\ _exclude_repos = {} /\ _exclude_langs = {}
    /\ _ignore_forked_repos \in BOOLEAN
    /\ cache_enabled = FALSE
    /\ _include_views = TRUE /\ _include_lines_changed = TRUE

NextLangs ==
    \/ \E a \in LangAccessors : Read("c1", a, "none")
    \/ PostReturned("c1")
    \/ \E onode \in catalog, cnode \in catalog :
         OverviewResponse("c1", "ok", "name", onode, cnode, "none")

SpecLangs == InitSpecLangs /\ [][NextLangs]_vars

(***************************************************************************)
(* SpecLines: lines_changed is read; the contributor lists hold entries of *)
(* the user, of others, of the user's login in another case, and malformed *)
(* entries.                                                                *)
(***************************************************************************)
ContributorPayloads ==
    {Json("list", <<Item("not_dict", 0, 0), Item("author_not_dict", 9, 9),
                    Item("user", 5, 3)>>),
     Json("list", <<Item("user_upper", 9, 9), Item("other", 9, 9)>>),
     Json("list", <<Item("user", 1, 2), Item("other", 9, 9), Item("user", 4, 4)>>)}

InitSpecLines ==
    /\ InitCache /\ InitTasks(FanTasksOf({"c1"}, {"a/one", "b/two", "p/py"})) /\ InitSemaphoreDefault /\ InitStats
    /\ InitConfigDefault
    /\ limit202 = 0
    /\ payloads = ContributorPayloads
    /\ ownedPages = 1 /\ contribPages = 1
    /\ catalog = {RepoA, RepoB, RepoP}
    /\ answers = {"ok"}

NextLines ==
    \/ Read("c1", "lines_changed", "none")
    \/ PostReturned("c1")
    \/ \E t \in Tasks : FetchStart(t)
    \/ \E onode \in catalog, cnode \in catalog :
         OverviewResponse("c1", "ok", "name", onode, cnode, "none")
    \/ \E t \in Tasks, o \in {"200", "exception"} : RestResponse(t, o)
    \/ \E t \in Tasks, b \in {"json", "exception"}, r \in payloads : RestRead(t, b, r)
    \/ GatherDone("c1", "none")

SpecLines == InitSpecLines /\ [][NextLines]_vars

(***************************************************************************)
(* SpecConc: two coroutines read accessors of one Stats instance at the    *)
(* same time; the event loop runs them in any order between their awaits.  *)
(***************************************************************************)
InitSpecConc ==
    /\ InitCache /\ InitTasks({}) /\ InitSemaphoreDefault /\ InitStats
    /\ InitConfigDefault
    /\ limit202 = 0
    /\ payloads = {EmptyDict}
    /\ ownedPages \in 1..MaxMergePages /\ contribPages = 1
    /\ catalog = {RepoA, RepoB}
    /\ answers = {"ok"}

NextConc ==
    \/ \E c \in Callers, a \in MemoAccessors : Read(c, a, "none")
    \/ \E c \in Callers : PostReturned(c)
    \/ \E c \in Callers, onode \in catalog, cnode \in catalog :
         OverviewResponse(c, "ok", "name", onode, cnode, "none")

SpecConc == InitSpecConc /\ [][NextConc]_vars

(***************************************************************************)
(* SpecRuns: the program runs again and again for the same user over one   *)
(* cache directory, with the cache enabled, while time passes.  The        *)
(* GraphQL queries may fail, the REST calls may fail or give the body of   *)
(* the other endpoint; the cache directory itself works.                   *)
(***************************************************************************)
\* the bodies of the two REST endpoints: the user's lines add up to (5, 3)
\* per repository, the views to 7
RunPayloads ==
    {Json("list", <<Item("other", 9, 9), Item("user", 5, 3)>>),
     Json("dict", <<Item("view", 7, 0)>>)}

\* the statistics a run reads: those that go through the cache
RunAccessors == {"total_contributions", "lines_changed", "views"}

InitSpecRuns ==
    /\ InitCache /\ InitTasks(FanTasksOf({"c1"}, {"a/one", "b/two"})) /\ InitSemaphoreDefault /\ InitStats
    /\ _exclude_repos = {} /\ _exclude_langs = {} /\ _ignore_forked_repos = FALSE
    /\ cache_enabled = TRUE
    /\ _include_views = TRUE /\ _include_lines_changed = TRUE
    /\ limit202 = 0
    /\ payloads = RunPayloads
    /\ ownedPages = 1 /\ contribPages = 1
    /\ catalog = {RepoA, RepoB}
    /\ answers = {"ok", "empty"}

NextRuns ==
    \/ \E a \in RunAccessors : Read("c1", a, "none")
    \/ PostReturned("c1")
    \/ \E t \in Tasks : FetchStart(t)
    \/ \E ans \in answers, onode \in catalog, cnode \in catalog :
         OverviewResponse("c1", ans, "name", onode, cnode, "none")
    \/ \E ans \in answers : YearsResponse("c1", ans)
    \/ \E ans \in answers, n \in ContribTotals : ContribsResponse("c1", ans, n, "none")
    \/ \E t \in Tasks, o \in {"200", "exception"} : RestResponse(t, o)
    \/ \E t \in Tasks, r \in payloads : RestRead(t, "json", r)
    \/ GatherDone("c1", "none")
    \/ Tick /\ UNCHANGED <<semVars, taskVars, remoteVars, statsVars>>
    \/ \E on \in BOOLEAN : NewStats(on, on)

SpecRuns == InitSpecRuns /\ [][NextRuns]_vars
(***************************************************************************)
(* SpecMain: the program's run: one Stats, to_str awaited once or twice.   *)
(* The GraphQL queries may fail or answer {"data": null}, the REST calls   *)
(* may fail; the cache directory may hold files of an interrupted run or   *)
(* entries that are no numbers, and may be read-only.                      *)
(***************************************************************************)
\* a cache directory with fresh entries of the three keys
CacheOf(tc, lc, vw) ==
    [k \in CacheKeys |->
        Entry(StartTime, JsonDump(CASE k = KeyTotalContributions -> tc
                                    [] k = KeyLinesChanged -> lc
                                    [] OTHER -> vw))]
\* the cache directories to_str starts with
MainCaches ==
    {[k \in CacheKeys |-> NoFile], [k \in CacheKeys |-> Broken("garbage")],
     CacheOf(PyInt(5), PyList(5, 3), PyInt(7)),
     CacheOf(PyDictStrKey(1, 2), PyList(5, 3), PyInt(0)),
     CacheOf(PyInt(0), PyDictStrKey(1, 2), PyInt(7)),
     CacheOf(PyInt(0), PyList(5, 3), PyList(1, 2))}
InitSpecMain ==
    /\ now = StartTime /\ cres = NoCall
    /\ files \in MainCaches
    /\ InitTasks(FanTasksOf({"c1"}, {"a/one", "b/two"}))
    /\ InitSemaphoreDefault /\ InitStats
    /\ _exclude_repos = {} /\ _exclude_langs = {} /\ _ignore_forked_repos = FALSE
    /\ cache_enabled \in BOOLEAN
    /\ _include_views \in BOOLEAN /\ _include_lines_changed \in BOOLEAN
    /\ limit202 = 0
    /\ payloads = RunPayloads
    /\ ownedPages = 1 /\ contribPages = 1
    /\ catalog = {RepoA, RepoB}
    /\ answers = {"ok", "empty", "data_null"}

NextMain ==
    \/ \E ft \in DirFaults : to_str("c1", ft)
    \/ PostReturned("c1")
    \/ \E t \in Tasks : FetchStart(t)
    \/ \E ans \in answers, onode \in catalog, cnode \in catalog :
         OverviewResponse("c1", ans, "name", onode, cnode, "none")
    \/ \E ans \in answers : YearsResponse("c1", ans)
    \/ \E ans \in answers, n \in ContribTotals : ContribsResponse("c1", ans, n, "none")
    \/ \E t \in Tasks, o \in {"200", "exception"} : RestResponse(t, o)
    \/ \E t \in Tasks, r \in payloads : RestRead(t, "json", r)
    \/ \E ft \in DirFaults : GatherDone("c1", ft)

SpecMain == InitSpecMain /\ [][NextMain]_vars

(***************************************************************************)
(* Claims about the cache.                                                 *)
(***************************************************************************)
\* the step is get(k) right after a set(k, v) that wrote its file, the file
\* being one the process can read
GetAfterSet(k) ==
    /\ cres.op = "set" /\ cres.key = k /\ cres.fault = "none"
    /\ JsonSerializable(cres.arg)
    /\ files[_get_cache_path(k)].kind = "entry"
    /\ \E ft \in DirFaults : SimpleCache_get(k, ft)

\* a value json.load gives back as it was: None, an int, a list, a dict with
\* str keys
JsonNative(v) == v.t \in {"NoneType", "int", "list", "dict_str_key"}

\* the step is get(k), the file system doing ft, on an entry older than ttl
GetOnExpired(k, ft) ==
    /\ files[_get_cache_path(k)].kind = "entry"
    /\ now - files[_get_cache_path(k)].timestamp > CacheTtl
    /\ SimpleCache_get(k, ft)

\* get(k) on an entry older than ttl returns None and removes the file
ExpiredEntryDropped(k, ft) ==
    GetOnExpired(k, ft)
    => (/\ cres'.ret = PyNone /\ cres'.raised = "none"
        /\ files'[_get_cache_path(k)] = NoFile)

\* get(k) on an entry older than ttl in a cache directory the process cannot
\* remove files from raises PermissionError and leaves the entry
ExpiredEntryStays(k) ==
    GetOnExpired(k, "readonly_dir")
    => (cres'.raised = "PermissionError" /\ files' = files)

C17_CorruptEntryAbsent ==
    [][\A k \in TestKeys :
         (/\ files[_get_cache_path(k)].kind \in BrokenKinds
          /\ \E ft \in DirFaults : SimpleCache_get(k, ft))
           => /\ cres'.raised = "none" /\ cres'.ret = PyNone
              /\ files'[_get_cache_path(k)] = NoFile]_vars

\* C18 as stated: a set(key, value) that cannot persist (an I/O error, a
\* value json cannot serialize) raises nothing and leaves the cache as it
\* was, the entry stored before under key included.
C18_FailedSetIsNoOp ==
    [][\A k \in TestKeys, v \in CacheValues, ft \in SetFaults :
         ((ft # "none" \/ ~JsonSerializable(v)) /\ SimpleCache_set(k, v, ft))
           => (cres'.raised = "none" /\ files' = files)]_vars

(***************************************************************************)
(* Claims about the query client.                                          *)
(***************************************************************************)
\* a call that finds no free permit does not send its request
SuspendsWithoutPermit ==
    \A t \in Tasks :
        (tpc[t] \in {"idle", "sleeping", "reading"} /\ tpc'[t] = "inflight")
        => permits > 0
\* a suspended call goes on only when a permit is released to it
ResumesOnRelease ==
    \A t \in Tasks :
        (tpc[t] = "waiting" /\ tpc'[t] # "waiting")
        => /\ tpc'[t] = "granted"
           /\ \E u \in Tasks \ {t} :
                 \/ tpc[u] = "inflight" /\ tpc'[u] # "inflight"
                 \/ tpc[u] = "granted" /\ tpc'[u] = "inflight"

\* C6: at most max_connections calls of query / query_rest are in flight in
\* any reachable state; a call that finds no free permit suspends until a
\* permit is released.
C6_InFlightBounded ==
    /\ [](Cardinality(InFlight) <= max_connections)
    /\ [][SuspendsWithoutPermit /\ ResumesOnRelease]_vars

\* every permit is in use and a call is suspended
C6_Witness ==
    /\ Cardinality(InFlight) = max_connections
    /\ max_connections = MaxConn
    /\ \E t \in Tasks : tpc[t] = "waiting"

\* C7: one call of query_rest sends at most 60 GETs; every 202 is followed by
\* a sleep of 2; after 60 answers of 202 it returns dict(); it always returns.
C7_RestBounded ==
    /\ [](/\ attempts["t1"] <= 60
          /\ n202["t1"] <= attempts["t1"]
          /\ slept["t1"] = 2 * (n202["t1"] - (IF tpc["t1"] = "sleeping" THEN 1 ELSE 0))
          /\ (tpc["t1"] = "done" /\ n202["t1"] = 60) => tresult["t1"] = "empty")
    /\ (tpc["t1"] # "idle") ~> (tpc["t1"] = "done")

\* the call returned after 60 answers of 202
C7_Witness ==
    /\ tpc["t1"] = "done" /\ n202["t1"] = 60 /\ attempts["t1"] = 60
    /\ slept["t1"] = 120 /\ tresult["t1"] = "empty"

\* the tasks that hold a permit: inside the request, or woken with the permit
\* handed over
Holders == {t \in Tasks : tpc[t] \in {"inflight", "granted"}}

\* every permit is either free or held: none is lost on a response, an
\* exception or a 202, and a sleeping task holds none
PermitsBalanced ==
    /\ permits >= 0
    /\ permits + Cardinality(Holders) = max_connections

\* C20: every permit taken by query or query_rest is given back on every
\* path and a task sleeping in the 202 backoff holds none, so the free
\* permits and the permits of the calls inside a request add up to
\* max_connections (with no call in flight all are free); and when requests
\* end, every task suspended in acquire gets its permit and sends.
C20_PermitsReturnedAndGranted ==
    /\ []PermitsBalanced
    /\ \A t \in ClientTasks : (tpc[t] = "waiting") ~> (tpc[t] = "inflight")

\* one connection: t1 sleeps in its backoff holding no permit, the permit is
\* in use by t2, and t3 is suspended in acquire
C20_Witness ==
    /\ max_connections = 1 /\ permits = 0
    /\ tpc["t1"] = "sleeping" /\ n202["t1"] = 1
    /\ tpc["t2"] = "inflight"
    /\ tpc["t3"] = "waiting"

(***************************************************************************)
(* Claims about get_stats.                                                 *)
(***************************************************************************)
RECURSIVE SumStars(_)
SumStars(S) ==
    IF S = {} THEN 0
    ELSE LET n == CHOOSE x \in S : TRUE IN NodeOf(n).stars + SumStars(S \ {n})

RECURSIVE SumForks(_)
SumForks(S) ==
    IF S = {} THEN 0
    ELSE LET n == CHOOSE x \in S : TRUE IN NodeOf(n).forks + SumForks(S \ {n})

\* the names on the pages merged in this run, and those of them not excluded
ServedNames == {n \in RepoNames : served[n] > 0}
Counted == ServedNames \ _exclude_repos

\* the overview query of c is out: in session.post, or in r_async.json()
InOverview(c) == cpc[c] \in {"overview", "overview_json"}

\* get_stats, called by c1 directly or through an accessor, has returned
GetStatsReturned ==
    /\ cpc["c1"] = "returned"
    /\ acc["c1"] \in SnapshotAccessors

\* C1: whatever the pages held, duplicates within a page pair or on later
\* pages included, after get_stats the repo set is the set of the names that
\* were on the merged pages and are not excluded, and the stargazer and fork
\* totals are the sums over that set, each repository counted once.
C1_UniqueReposSummedOnce ==
    GetStatsReturned =>
        /\ Val(_repos) = Counted
        /\ Val(_stargazers) = SumStars(Counted)
        /\ Val(_forks) = SumForks(Counted)

\* a/one and b/two were each on the merged pages twice or more
C1_Witness ==
    /\ GetStatsReturned
    /\ served["a/one"] >= 2 /\ served["b/two"] >= 2
    /\ _exclude_repos = {}
    /\ Val(_repos) = {"a/one", "b/two"}
    /\ Val(_stargazers) = 3 /\ Val(_forks) = 24

\* language l matches a member of exclude_langs, whatever the case
MatchesExcluded(l) == \E x \in _exclude_langs : lower(x) = lower(l)

\* the bytes of language l in the repositories of S
RECURSIVE EdgeBytes(_, _)
EdgeBytes(edges, l) ==
    IF edges = <<>> THEN 0
    ELSE (IF Head(edges).name = l THEN Head(edges).size ELSE 0) + EdgeBytes(Tail(edges), l)

RECURSIVE Bytes(_, _)
Bytes(S, l) ==
    IF S = {} THEN 0
    ELSE LET n == CHOOSE x \in S : TRUE
         IN  EdgeBytes(NodeOf(n).langs, l) + Bytes(S \ {n}, l)

\* the languages of the repositories of S
LangNamesOf(S) == UNION {{NodeOf(n).langs[i].name : i \in DOMAIN NodeOf(n).langs} : n \in S}

RECURSIVE SumBytes(_, _)
SumBytes(S, L) ==
    IF L = {} THEN 0
    ELSE LET l == CHOOSE x \in L : TRUE IN Bytes(S, l) + SumBytes(S, L \ {l})

\* the languages that count: those of the counted repositories that match no
\* member of exclude_langs
CountedLangs == {l \in LangNamesOf(Counted) : ~MatchesExcluded(l)}

\* C2: after get_stats no repository of exclude_repos is in the repo set or
\* in the stargazer, fork or language totals, and no language that matches a
\* member of exclude_langs case-insensitively has an entry in the language
\* aggregate or bytes in a size or in the total the proportions are taken of.
C2_ExclusionsHonoured ==
    GetStatsReturned =>
        /\ Val(_repos) \cap _exclude_repos = {}
        /\ Val(_stargazers) = SumStars(Counted)
        /\ Val(_forks) = SumForks(Counted)
        /\ DOMAIN Val(_languages) = CountedLangs
        /\ \A l \in DOMAIN Val(_languages) :
              /\ ~MatchesExcluded(l)
              /\ Val(_languages)[l].size = Bytes(Counted, l)
              /\ Val(_languages)[l].prop_num = 100 * Bytes(Counted, l)
              /\ Val(_languages)[l].prop_den = SumBytes(Counted, CountedLangs)

\* b/two is excluded and was on the pages; a/one, not excluded, has bytes of
\* Python and of "go", and "GO" is excluded
C2_Witness ==
    /\ GetStatsReturned
    /\ _exclude_repos = {"b/two"} /\ _exclude_langs = {"GO"}
    /\ served["b/two"] > 0 /\ served["a/one"] > 0
    /\ Val(_repos) = {"a/one"}
    /\ Val(_stargazers) = 1 /\ Val(_forks) = 8
    /\ DOMAIN Val(_languages) = {"Python"}
    /\ Val(_languages)["Python"].size = 100
    /\ Val(_languages)["Python"].prop_den = 100

(***************************************************************************)
(* Claims about the pagination of get_stats.                               *)
(***************************************************************************)
Max(a, b) == IF a >= b THEN a ELSE b

\* C3 as stated: the loop of get_stats ends after exactly
\* max(ownedPages, contribPages) iterations, one overview request each.
C3_IterationsAreMaxPages ==
    (cpc["c1"] = "returned" /\ reads["c1"] = 1) => posts = Max(ownedPages, contribPages)

\* the step is a pass of the loop of get_stats that is followed by another
LoopsAgain(c) == cpc[c] = "overview_json" /\ cpc'[c] = "overview" /\ posts' = posts + 1

\* C14 as stated: when the page of one side reports hasNextPage = false and
\* the page of the other side reports true, the cursor sent next for the
\* exhausted side is the one sent now, and the other side's cursor becomes
\* the endCursor of its page.
C14_ExhaustedCursorStays ==
    [][\A c \in Callers : LoopsAgain(c) =>
         /\ (/\ ~hasNextPage(ownedPages, next_owned[c])
             /\ hasNextPage(contribPages, next_contrib[c]))
              => /\ next_owned'[c] = next_owned[c]
                 /\ next_contrib'[c] = endCursor(contribPages, next_contrib[c])
         /\ (/\ hasNextPage(ownedPages, next_owned[c])
             /\ ~hasNextPage(contribPages, next_contrib[c]))
              => /\ next_contrib'[c] = next_contrib[c]
                 /\ next_owned'[c] = endCursor(ownedPages, next_owned[c])]_vars

(***************************************************************************)
(* Claims about the accessors.                                             *)
(***************************************************************************)
\* what the coroutines in T that did not fail returned, added up
RECURSIVE SumOfSucceeded(_)
SumOfSucceeded(T) ==
    IF T = {} THEN <<0, 0>>
    ELSE LET t == CHOOSE x \in T : TRUE
             r == TaskResult(t)
             rest == SumOfSucceeded(T \ {t})
         IN  IF r.exc THEN rest ELSE <<rest[1] + r.a, rest[2] + r.d>>

\* what the accessor a returns for the sums s
AccessorValue(a, s) == IF a = "lines_changed" THEN PyTuple(s[1], s[2]) ELSE PyInt(s[1])

\* C4: when the gather of lines_changed or views is over, whichever fetch
\* tasks ended with an exception and in whatever order the tasks ended, the
\* accessor raises nothing and returns the sum of the results of the tasks
\* that did not fail.
C4_FailedFetchCountsZero ==
    [][\A c \in Callers :
         (cpc[c] = "gather" /\ cpc'[c] # "gather")
           => /\ cpc'[c] = "returned"
              /\ ret'[c] = Some(AccessorValue(acc[c], SumOfSucceeded(Launched(c, acc[c]))))]_vars

\* both fan-outs ran over a/one and b/two; in each the task of one repository
\* failed and the other's result is what the accessor returned
C4_Witness ==
    /\ cpc["c1"] = "returned" /\ acc["c1"] = "views"
    /\ Launched("c1", "lines_changed") = {"c1"} \X {"lines_changed"} \X {"a/one", "b/two"}
    /\ Launched("c1", "views") = {"c1"} \X {"views"} \X {"a/one", "b/two"}
    /\ TaskResult(<<"c1", "lines_changed", "a/one">>).exc
    /\ TaskResult(<<"c1", "lines_changed", "b/two">>) = [exc |-> FALSE, a |-> 5, d |-> 3]
    /\ TaskResult(<<"c1", "views", "b/two">>).exc
    /\ TaskResult(<<"c1", "views", "a/one">>) = [exc |-> FALSE, a |-> 7, d |-> 0]
    /\ _lines_changed = Some(PyTuple(5, 3))
    /\ _views = Some(PyInt(7))
    /\ ret["c1"] = Some(PyInt(7))

\* the accessors C8 names
NamedAccessors == {"name", "stargazers", "forks", "languages", "repos",
                   "total_contributions", "lines_changed", "views"}

\* C8 as stated: however the remote answers or fails, no accessor propagates
\* an exception to its caller.
C8_NoAccessorRaises ==
    \A c \in Callers : ~(cpc[c] = "raised" /\ acc[c] \in NamedAccessors)

\* caller c reads accessor a in this step
Reads(c, a) ==
    /\ cpc[c] \in {"idle", "returned", "raised"}
    /\ reads'[c] = reads[c] + 1
    /\ acc'[c] = a

\* the step makes no remote call and leaves the cache alone
NoRemoteCall == posts' = posts /\ tpc' = tpc /\ attempts' = attempts
CacheUntouched == files' = files /\ cres' = cres

\* C9: with include_views false a read of views returns 0, with
\* include_lines_changed false a read of lines_changed returns (0, 0), and
\* the read sends no GraphQL and no REST request and neither reads nor
\* writes the cache.
C9_SwitchedOffShortCircuits ==
    [][\A c \in Callers :
         /\ (Reads(c, "views") /\ ~_include_views)
              => /\ cpc'[c] = "returned" /\ ret'[c] = Some(PyInt(0))
                 /\ NoRemoteCall /\ CacheUntouched
         /\ (Reads(c, "lines_changed") /\ ~_include_lines_changed)
              => /\ cpc'[c] = "returned" /\ ret'[c] = Some(PyTuple(0, 0))
                 /\ NoRemoteCall /\ CacheUntouched]_vars

\* both statistics are switched off, the cache is enabled and holds fresh
\* entries; both accessors were read
C9_Witness ==
    /\ ~_include_views /\ ~_include_lines_changed
    /\ cache_enabled /\ files = EarlierRun(StartTime)
    /\ reads["c1"] = 2 /\ cpc["c1"] = "returned"
    /\ _views = Some(PyInt(0)) /\ _lines_changed = Some(PyTuple(0, 0))
    /\ posts = 0 /\ cres = NoCall
    /\ \A t \in Tasks : tpc[t] = "idle"

\* the statistics that are cached, their keys, fields and switches
CachedAccessors == {"total_contributions", "lines_changed", "views"}
KeyOf(a) ==
    CASE a = "total_contributions" -> KeyTotalContributions
      [] a = "lines_changed" -> KeyLinesChanged
      [] OTHER -> KeyViews
FieldOf(a) ==
    CASE a = "total_contributions" -> _total_contributions
      [] a = "lines_changed" -> _lines_changed
      [] OTHER -> _views
SwitchedOn(a) ==
    CASE a = "total_contributions" -> TRUE
      [] a = "lines_changed" -> _include_lines_changed
      [] OTHER -> _include_views

\* the cache holds an unexpired entry under the key of a
FreshEntry(a) ==
    /\ files[_get_cache_path(KeyOf(a))].kind = "entry"
    /\ now - files[_get_cache_path(KeyOf(a))].timestamp <= CacheTtl

\* the value of that entry, as the accessor returns it
CachedValue(a) ==
    LET v == JsonLoad(files[_get_cache_path(KeyOf(a))].value)
    IN  IF a = "lines_changed" THEN PyTuple(v.a, v.b) ELSE v

\* the first read of a, with a fresh entry in an enabled cache
FirstReadOnFresh(c, a) ==
    cache_enabled /\ FreshEntry(a) /\ FieldOf(a) = None /\ Reads(c, a)

ServedFromCache(c, a) ==
    /\ cpc'[c] = "returned" /\ ret'[c] = Some(CachedValue(a))
    /\ NoRemoteCall

\* C10 as stated: with the cache enabled and an unexpired entry under the
\* key of a statistic, the first read of its accessor returns the cached
\* value and makes no remote call.
C10_FreshEntryServed ==
    [][\A c \in Callers, a \in CachedAccessors :
         FirstReadOnFresh(c, a) => ServedFromCache(c, a)]_vars

\* C10, for the statistics that are switched on: with the cache enabled and
\* an unexpired entry under the key of a statistic that is not switched off
\* (include_lines_changed, include_views), the first read of its accessor
\* returns the cached value and makes no remote call.
C10_FreshEntryServedWhenOn ==
    [][\A c \in Callers, a \in CachedAccessors :
         (FirstReadOnFresh(c, a) /\ SwitchedOn(a)) => ServedFromCache(c, a)]_vars

\* lines_changed and views, both switched on, were read from fresh entries
C10_Witness ==
    /\ cache_enabled /\ _include_lines_changed /\ _include_views
    /\ files = EarlierRun(StartTime)
    /\ reads["c1"] = 2 /\ cpc["c1"] = "returned"
    /\ acc["c1"] = "views" /\ ret["c1"] = Some(PyInt(7))
    /\ cres.op = "get" /\ cres.key = KeyViews /\ cres.ret = PyInt(7)
    /\ _lines_changed = Some(PyTuple(5, 3))
    /\ posts = 0
    /\ \A t \in Tasks : tpc[t] = "idle"

(***************************************************************************)
(* Claims about memoization.                                               *)
(***************************************************************************)
\* a read of an accessor of get_stats' fields has returned
SomeReadReturned ==
    \E d \in Callers : cpc[d] = "returned" /\ acc[d] \in MemoAccessors

\* C11 as stated: reads made one after another fetch each statistic at most
\* once: once an accessor of the fields of get_stats has returned, a later
\* read of any of these accessors returns without a remote request, so
\* get_stats runs at most once.
C11_FetchedOnce ==
    [][\A c \in Callers, a \in MemoAccessors :
         (Quiescent /\ SomeReadReturned /\ Reads(c, a))
           => (posts' = posts /\ cpc'[c] = "returned")]_vars

\* C19 as stated: with reads started concurrently, the fields of get_stats
\* are written by one run and read only after it: while a get_stats run is
\* in flight no other run is started and no accessor returns.
C19_OneRunReadAfter ==
    \A c \in Callers, d \in Callers :
        (c # d /\ InOverview(c)) => (~InOverview(d) /\ cpc[d] # "returned")

(***************************************************************************)
(* Claims about the language proportions.                                  *)
(***************************************************************************)
RECURSIVE TotalSize(_, _)
TotalSize(languages, L) ==
    IF L = {} THEN 0
    ELSE LET l == CHOOSE x \in L : TRUE
         IN  languages[l].size + TotalSize(languages, L \ {l})

RECURSIVE SumPropNum(_, _)
SumPropNum(languages, L) ==
    IF L = {} THEN 0
    ELSE LET l == CHOOSE x \in L : TRUE
         IN  languages[l].prop_num + SumPropNum(languages, L \ {l})

\* every language of the aggregate has the proportion 100 * size / total,
\* kept as the fraction prop_num / prop_den, and the proportions add up to 100
ProportionsOfTotal(languages) ==
    LET total == TotalSize(languages, DOMAIN languages)
    IN  /\ total > 0
        /\ \A l \in DOMAIN languages :
              /\ languages[l].prop_num = 100 * languages[l].size
              /\ languages[l].prop_den = total
        /\ SumPropNum(languages, DOMAIN languages) = 100 * total

\* what languages_proportional returns for the aggregate
ProportionsReturned(languages) ==
    [l \in DOMAIN languages |->
        [num |-> 100 * languages[l].size,
         den |-> TotalSize(languages, DOMAIN languages)]]

\* C12: when get_stats returns with a non-empty language aggregate, every
\* language has the proportion 100 * size / (sum of the sizes of the
\* aggregate), the proportions add up to 100, and languages_proportional
\* returns them.
C12_ProportionsOfTotal ==
    [][(/\ InOverview("c1") /\ cpc'["c1"] = "returned"
        /\ DOMAIN Val(_languages') # {})
         => /\ ProportionsOfTotal(Val(_languages'))
            /\ acc["c1"] = "languages_proportional"
                 => ret'["c1"] = Some(ProportionsReturned(Val(_languages')))]_vars

\* the owned repositories are p/py (100 bytes of Python) and g/go (300 bytes
\* of Go): Python is 25 and Go is 75
C12_Witness ==
    /\ cpc["c1"] = "returned" /\ acc["c1"] = "languages_proportional"
    /\ _ignore_forked_repos /\ Val(_repos) = {"p/py", "g/go"}
    /\ DOMAIN Val(ret["c1"]) = {"Python", "Go"}
    /\ Val(ret["c1"])["Python"].num = 25 * Val(ret["c1"])["Python"].den
    /\ Val(ret["c1"])["Go"].num = 75 * Val(ret["c1"])["Go"].den
    /\ Val(ret["c1"])["Go"].den = 400

\* C15 as stated: get_stats never ends with a division fault, whether the
\* language aggregate is empty or every language in it has size 0.
C15_NoDivisionFault ==
    \A c \in Callers : ~(cpc[c] = "raised" /\ ret[c] = Some("ZeroDivisionError"))

(***************************************************************************)
(* Claims about lines_changed.                                             *)
(***************************************************************************)
\* the additions (f = "a") or deletions (f = "d") of the entries of a
\* contributor list whose author login is the username
RECURSIVE OwnLines(_, _)
OwnLines(items, f) ==
    IF items = <<>> THEN 0
    ELSE (IF Head(items).kind = "user"
          THEN (IF f = "a" THEN Head(items).a ELSE Head(items).d)
          ELSE 0) + OwnLines(Tail(items), f)

\* the same over the contributor lists the tasks of T received
RECURSIVE OwnLinesOf(_, _)
OwnLinesOf(T, f) ==
    IF T = {} THEN 0
    ELSE LET t == CHOOSE x \in T : TRUE
         IN  (IF tresult[t] = "data" /\ tpayload[t].shape = "list"
              THEN OwnLines(tpayload[t].items, f) ELSE 0) + OwnLinesOf(T \ {t}, f)

\* C13: lines_changed returns the additions and deletions of exactly the
\* entries whose author login is the username; entries with the login in
\* another case, of other authors, that are no object or whose author is no
\* object count nothing and fail nothing; with no matching entry anywhere
\* the result is (0, 0).
C13_OnlyOwnLines ==
    [][(cpc["c1"] = "gather" /\ acc["c1"] = "lines_changed" /\ cpc'["c1"] # "gather")
         => /\ cpc'["c1"] = "returned"
            /\ ret'["c1"] = Some(PyTuple(OwnLinesOf(Launched("c1", "lines_changed"), "a"),
                                         OwnLinesOf(Launched("c1", "lines_changed"), "d")))]_vars

\* a/one's list has two malformed entries and one of the user (5, 3); b/two's
\* list has the user's login in upper case and another author only
C13_Witness ==
    /\ cpc["c1"] = "returned" /\ acc["c1"] = "lines_changed"
    /\ Launched("c1", "lines_changed") = {"c1"} \X {"lines_changed"} \X {"a/one", "b/two"}
    /\ tresult[<<"c1", "lines_changed", "a/one">>] = "data"
    /\ tpayload[<<"c1", "lines_changed", "a/one">>] =
         Json("list", <<Item("not_dict", 0, 0), Item("author_not_dict", 9, 9),
                        Item("user", 5, 3)>>)
    /\ tresult[<<"c1", "lines_changed", "b/two">>] = "data"
    /\ tpayload[<<"c1", "lines_changed", "b/two">>] =
         Json("list", <<Item("user_upper", 9, 9), Item("other", 9, 9)>>)
    /\ ret["c1"] = Some(PyTuple(5, 3))

(***************************************************************************)
(* Claims about ignore_forked_repos.                                       *)
(***************************************************************************)
\* the names of the repositories in a list of names of nodes
ReposIn(names) == {names[i] : i \in DOMAIN names} \ {""}

\* the overview query of c is answered in this step
OverviewAnswered(c) ==
    InOverview(c) /\ (cpc'[c] \notin {"overview", "overview_json"} \/ posts' # posts)

\* the sizes of the language aggregate do not change in this step
SizesUnchanged ==
    /\ DOMAIN Val(_languages') = DOMAIN Val(_languages)
    /\ \A l \in DOMAIN Val(_languages) :
         Val(_languages')[l].size = Val(_languages)[l].size

\* C16: with ignore_forked_repos the loop goes over the owned nodes of a page
\* only, so a pass adds to the repo set no name that is not on the owned
\* page, and a pass that adds no repository changes neither stargazers nor
\* forks nor the language sizes; without it the loop goes over the owned
\* nodes of the page and then over its contributed-to nodes.
C16_ForksIgnoredOrAppended ==
    [][\A c \in Callers : OverviewAnswered(c) =>
         LET added == Val(_repos') \ Val(_repos)
         IN  IF _ignore_forked_repos
             THEN /\ last_page'.merged = last_page'.owned
                  /\ added = ReposIn(last_page'.owned) \ (Val(_repos) \cup _exclude_repos)
                  /\ Val(_stargazers') = Val(_stargazers) + SumStars(added)
                  /\ Val(_forks') = Val(_forks) + SumForks(added)
                  /\ added = {} => SizesUnchanged
             ELSE /\ last_page'.merged = last_page'.owned \o last_page'.contrib
                  /\ added = ReposIn(last_page'.merged) \ (Val(_repos) \cup _exclude_repos)]_vars

\* forks are ignored; b/two was on the contributed-to page only and is in no
\* total
C16_Witness ==
    /\ _ignore_forked_repos /\ _exclude_repos = {}
    /\ GetStatsReturned /\ posts = 1
    /\ last_page = [owned |-> <<"a/one">>, contrib |-> <<"b/two">>, merged |-> <<"a/one">>]
    /\ Val(_repos) = {"a/one"}
    /\ Val(_stargazers) = 1 /\ Val(_forks) = 8
    /\ DOMAIN Val(_languages) = {"Python", "go"}

(***************************************************************************)
(* Claims about an overview query that fails.                              *)
(***************************************************************************)
\* C21: when Queries.query returns dict() for the overview query of a pass
\* of get_stats, that pass is the last one: no further request is sent, the
\* call ends, the repo set, stargazers, forks and the language sizes and
\* occurrences are what the earlier pages left, and name is "No Name",
\* whatever an earlier page had supplied.  (Such a pass records no page.)
C21_FailedPageEndsLoop ==
    [][(/\ last_page' = NoPage
        /\ \E onode \in catalog, cnode \in catalog :
             OverviewResponse("c1", "empty", "name", onode, cnode, "none")) =>
           /\ cpc'["c1"] = "returned"
           /\ posts' = posts
           /\ next_owned' = next_owned /\ next_contrib' = next_contrib
           /\ Val(_repos') = Val(_repos)
           /\ Val(_stargazers') = Val(_stargazers)
           /\ Val(_forks') = Val(_forks)
           /\ SizesUnchanged
           /\ \A l \in DOMAIN Val(_languages) :
                Val(_languages')[l].occurrences = Val(_languages)[l].occurrences
           /\ _name' = Some("No Name")]_vars

\* the first page was merged and more pages were to come, the second query
\* failed: get_stats has returned after two requests with the totals of the
\* first page and the default name
C21_Witness ==
    /\ ownedPages = 2 /\ _exclude_repos = {}
    /\ GetStatsReturned /\ posts = 2
    /\ last_page = NoPage
    /\ Val(_repos) # {} /\ Val(_stargazers) = SumStars(Val(_repos))
    /\ _name = Some("No Name")
(***************************************************************************)
(* Claims about what the cache keeps from one run to the next.             *)
(***************************************************************************)
\* accessor a of c, not switched off and not served from the cache, returns
\* the value it computed in this step
Computes(c, a) ==
    /\ acc'[c] = a /\ cpc'[c] = "returned"
    /\ \/ cpc[c] \in {"overview", "overview_json", "contribs", "contribs_json", "gather"}
       \/ Reads(c, a) /\ FieldOf(a) = None /\ SwitchedOn(a) /\ ~FreshEntry(a)

\* after the step the entry under the key of a holds, with the time of the
\* step, the value c was given
WrittenAsReturned(c, a) ==
    files'[_get_cache_path(KeyOf(a))] = Entry(now, JsonDump(Val(ret'[c])))

\* C22 as stated: with the cache enabled, a computed total_contributions,
\* lines_changed or views is written under its key whatever failed on the
\* way, and a first read of the statistic by a Stats that finds the entry
\* unexpired returns its value and makes no remote call.
C22_ComputedValueSticks ==
    [][\A c \in Callers, a \in CachedAccessors :
         /\ (cache_enabled /\ Computes(c, a)) => WrittenAsReturned(c, a)
         /\ FirstReadOnFresh(c, a) => ServedFromCache(c, a)]_vars

\* C22, for a Stats that has the statistic switched on: with the cache
\* enabled, a computed total_contributions, lines_changed or views is
\* written under its key whatever failed on the way, and a first read of the
\* statistic by a Stats that has it switched on and finds the entry
\* unexpired returns its value and makes no remote call.
C22_ComputedValueSticksWhenOn ==
    [][\A c \in Callers, a \in CachedAccessors :
         /\ (cache_enabled /\ Computes(c, a)) => WrittenAsReturned(c, a)
         /\ (FirstReadOnFresh(c, a) /\ SwitchedOn(a)) => ServedFromCache(c, a)]_vars

\* a Stats that has run no get_stats and sent no REST call has returned
\* (0, 0) for lines_changed from the entry an earlier Stats wrote; in this
\* specification the lines of a repository are (5, 3), so (0, 0) was
\* computed from a failed or malformed answer
C22_Witness ==
    /\ cache_enabled /\ _include_lines_changed
    /\ _repos = None /\ \A t \in Tasks : tpc[t] = "idle"
    /\ cpc["c1"] = "returned" /\ acc["c1"] = "lines_changed"
    /\ ret["c1"] = Some(PyTuple(0, 0))
    /\ cres.op = "get" /\ cres.key = KeyLinesChanged /\ cres.ret = PyList(0, 0)
    /\ files[_get_cache_path(KeyLinesChanged)].kind = "entry"
    /\ now > files[_get_cache_path(KeyLinesChanged)].timestamp
    /\ posts >= 1
====
